---------------------------- MODULE Spec2Model ----------------------------
(***************************************************************************)
(* A model of the Ceremony Field Catalog Python SDK                        *)
(* (src/sdks/python/ceremony_catalog_sdk.py): the module-level engine      *)
(* state, initialize / reset / the three intake entry points, the          *)
(* background worker and the transport, with the XML extractor as pure     *)
(* operators.                                                              *)
(*                                                                         *)
(* Conventions.                                                            *)
(*   - A Python string is a sequence of characters (one-character TLA+     *)
(*     strings; a multi-character token stands for a run of characters     *)
(*     that no operation of the program looks into).                       *)
(*   - Optional[T] is a sequence of length 0 (None) or 1 (the value).      *)
(*   - A dict is the sequence of its entries in insertion order.           *)
(*   - Object references (queue objects, threads) are positive indices     *)
(*     into the heaps `queues` and `workers`; 0 is None.                   *)
(***************************************************************************)
EXTENDS Integers, Sequences, FiniteSets, TLC

\* ---------------------------------------------------------------- bounds
\* Number of initialize() calls the callers may start.
MaxInit == 2
\* Number of intake calls the callers may start.
MaxSubmit == 2
\* Number of reset() calls the callers may start.
MaxReset == 1
\* Number of shutdown() calls the callers may attempt.
MaxShutdown == 1

\* ------------------------------------------------------ program constants
DEFAULT_BATCH_SIZE == 500
DEFAULT_QUEUE_CAPACITY == 10000
OBSERVATIONS_ENDPOINT(context_id) ==
    <<"/catalog/contexts/">> \o context_id \o <<"/observations">>

\* ------------------------------------------------------- Python built-ins
None == <<>>
Some(x) == <<x>>
IsNone(o) == Len(o) = 0
Get(o) == o[1]

Whitespace == {" ", "\n", "\t"}

RECURSIVE LStrip(_, _)
LStrip(s, chars) ==
    IF Len(s) > 0 /\ Head(s) \in chars THEN LStrip(Tail(s), chars) ELSE s

RECURSIVE RStrip(_, _)
RStrip(s, chars) ==
    IF Len(s) > 0 /\ s[Len(s)] \in chars
    THEN RStrip(SubSeq(s, 1, Len(s) - 1), chars)
    ELSE s

StripNothing(s) == s

\* str.strip(): leading and trailing whitespace removed.
Strip(s) == RStrip(LStrip(s, Whitespace), Whitespace)

\* Truthiness of an Optional[str]: None and "" are falsy.
Truthy(o) == ~IsNone(o) /\ Len(Get(o)) > 0

Min(a, b) == IF a < b THEN a ELSE b

SliceShort(s, i, size) == SubSeq(s, i + 1, Min(i + size - 1, Len(s)))

\* observations[i:i + size] for a 0-based start i (Python slice, clipped).
Slice(s, i, size) == SubSeq(s, i + 1, Min(i + size, Len(s)))

\* ------------------------------------------------------------ extraction
\* An ElementTree element: tag (a string, "{ns}local" when namespaced), text
\* (Optional[str]), attrib (dict name -> value) and the child elements.
Elem(tag, text, attrib, children) ==
    [tag |-> tag, text |-> text, attrib |-> attrib, children |-> children]

RECURSIVE AfterBrace(_)
AfterBrace(tag) ==
    IF Len(tag) = 0 THEN <<>>
    ELSE IF Head(tag) = "}" THEN Tail(tag)
    ELSE AfterBrace(Tail(tag))

KeepNamespace(tag) == tag

\* _get_local_name: "{ns}local" gives "local".
_get_local_name(tag) ==
    IF Len(tag) > 0 /\ Head(tag) = "{" THEN AfterBrace(tag) ELSE tag

\* Index of field_path in the insertion-ordered dict field_stats, 0 if absent.
StatIndex(field_stats, field_path) ==
    LET hits == {k \in 1..Len(field_stats) :
                    field_stats[k].field_path = field_path}
    IN IF hits = {} THEN 0 ELSE CHOOSE k \in hits : TRUE

FieldStatistics(field_path, metadata) ==
    [field_path |-> field_path, metadata |-> metadata,
     total_occurrences |-> 0, null_value_count |-> 0, empty_value_count |-> 0]

UpdateWithoutStrip(field_stats, field_path, metadata, value) ==
    LET withKey == IF StatIndex(field_stats, field_path) = 0
                   THEN Append(field_stats, FieldStatistics(field_path, metadata))
                   ELSE field_stats
        k == StatIndex(withKey, field_path)
    IN [withKey EXCEPT ![k] =
          [withKey[k] EXCEPT
             !.total_occurrences = @ + 1,
             !.null_value_count = IF IsNone(value) THEN @ + 1 ELSE @,
             !.empty_value_count =
                 IF ~IsNone(value) /\ Len(Get(value)) = 0 THEN @ + 1 ELSE @]]

\* value is an Optional[str].
_update_field_statistics(field_stats, field_path, metadata, value) ==
    LET withKey == IF StatIndex(field_stats, field_path) = 0
                   THEN Append(field_stats, FieldStatistics(field_path, metadata))
                   ELSE field_stats
        k == StatIndex(withKey, field_path)
        stats == withKey[k]
        isNull == IsNone(value)
        isEmpty == ~isNull /\ (Len(Get(value)) = 0 \/ Len(Strip(Get(value))) = 0)
    IN [withKey EXCEPT ![k] =
          [stats EXCEPT
             !.total_occurrences = @ + 1,
             !.null_value_count = IF isNull THEN @ + 1 ELSE @,
             !.empty_value_count = IF isEmpty THEN @ + 1 ELSE @]]

RECURSIVE AttributeLoop(_, _, _, _, _)
AttributeLoop(attrib, k, field_stats, metadata, current_path) ==
    IF k > Len(attrib) THEN field_stats
    ELSE AttributeLoop(attrib, k + 1,
            _update_field_statistics(field_stats,
                current_path \o <<"/@">> \o _get_local_name(attrib[k].name),
                metadata, Some(attrib[k].value)),
            metadata, current_path)

RECURSIVE _process_element_recursive(_, _, _, _)
RECURSIVE ChildLoop(_, _, _, _, _)

_process_element_recursive(element, field_stats, metadata, parent_path) ==
    LET element_name == _get_local_name(element.tag)
        current_path == parent_path \o <<"/">> \o element_name
        has_children == Len(element.children) > 0
        hasText == Truthy(element.text) /\ Len(Strip(Get(element.text))) > 0
        s1 == IF hasText /\ ~has_children
              THEN _update_field_statistics(field_stats, current_path,
                                            metadata, element.text)
              ELSE IF ~has_children
              THEN _update_field_statistics(field_stats, current_path,
                                            metadata, Some(<<>>))
              ELSE field_stats
        s2 == AttributeLoop(element.attrib, 1, s1, metadata, current_path)
    IN ChildLoop(element.children, 1, s2, metadata, current_path)

ChildLoop(children, k, field_stats, metadata, current_path) ==
    IF k > Len(children) THEN field_stats
    ELSE ChildLoop(children, k + 1,
            _process_element_recursive(children[k], field_stats, metadata,
                                       current_path),
            metadata, current_path)

CatalogObservationDto(stats) ==
    [metadata |-> stats.metadata, field_path |-> stats.field_path,
     count |-> stats.total_occurrences,
     has_null |-> stats.null_value_count > 0,
     has_empty |-> stats.empty_value_count > 0]

_convert_statistics_to_observations(field_stats) ==
    [k \in 1..Len(field_stats) |-> CatalogObservationDto(field_stats[k])]

\* xml_element and metadata are Optionals; `metadata or {}`.
_extract_observations_from_element(xml_element, metadata) ==
    IF IsNone(xml_element) THEN <<>>
    ELSE _convert_statistics_to_observations(
            _process_element_recursive(Get(xml_element), <<>>,
                IF IsNone(metadata) THEN <<>> ELSE Get(metadata), <<>>))


\* An XML source given as bytes or str: empty, malformed, or the text of a
\* well-formed document with the given root.
EmptyText == [kind |-> "empty", root |-> <<>>]
MalformedText == [kind |-> "malformed", root |-> <<>>]
XmlText(root) == [kind |-> "xml", root |-> Some(root)]

\* ET.fromstring: the root element, or None for a ParseError.
FromString(xml_data) ==
    IF xml_data.kind = "xml" THEN xml_data.root ELSE None

\* `not xml_data` for Optional[bytes] / Optional[str].
Falsy(xml_data) == IsNone(xml_data) \/ Get(xml_data).kind = "empty"

ExtractStringWithoutMetadata(xml_data, metadata) ==
    IF Falsy(xml_data) THEN <<>>
    ELSE IF IsNone(FromString(Get(xml_data))) THEN <<>>
    ELSE _extract_observations_from_element(FromString(Get(xml_data)), None)

_extract_observations_from_string(xml_data, metadata) ==
    IF Falsy(xml_data) THEN <<>>
    ELSE IF IsNone(FromString(Get(xml_data))) THEN <<>>
    ELSE _extract_observations_from_element(FromString(Get(xml_data)), metadata)

_extract_observations_from_bytes(xml_data, metadata) ==
    IF Falsy(xml_data) THEN <<>>
    ELSE IF IsNone(FromString(Get(xml_data))) THEN <<>>
    ELSE _extract_observations_from_element(FromString(Get(xml_data)), metadata)

\* The closure each public entry point hands to _enqueue_work.
extraction_func(entry, xml, metadata) ==
    CASE entry = "bytes" -> _extract_observations_from_bytes(xml, metadata)
      [] entry = "string" -> _extract_observations_from_string(xml, metadata)
      [] entry = "element" -> _extract_observations_from_element(xml, metadata)

\* ------------------------------------------------------------ input sets
\* <Root><Child>value</Child></Root>
DocOne == Elem(<<"Root">>, None, <<>>,
               <<Elem(<<"Child">>, Some(<<"v">>), <<>>, <<>>)>>)
\* <n:Root xmlns:n="u" a="x"><n:C b="">t</n:C><n:C> </n:C></n:Root>
DocThree ==
    Elem(<<"{", "u", "}", "Root">>, Some(<<"\n">>),
         <<[name |-> <<"a">>, value |-> <<"x">>]>>,
         <<Elem(<<"{", "u", "}", "C">>, Some(<<"t">>),
                <<[name |-> <<"b">>, value |-> <<>>]>>, <<>>),
           Elem(<<"{", "u", "}", "C">>, Some(<<" ">>), <<>>, <<>>)>>)

MetaKV == <<[key |-> "k", value |-> "v"]>>

Submission(entry, xml, context_id, metadata) ==
    [entry |-> entry, xml |-> xml, context_id |-> context_id,
     metadata |-> metadata]

\* Submissions that pass validation and extraction.
GoodSubmissions ==
    { Submission("string", Some(XmlText(DocOne)), Some(<<"c">>), Some(MetaKV)),
      Submission("bytes", Some(XmlText(DocThree)), Some(<<" ", "d">>), None),
      Submission("element", Some(DocThree), Some(<<"c">>), Some(MetaKV)),
      Submission("string", Some(XmlText(DocThree)), Some(<<"c">>),
                 Some(MetaKV)) }

\* Submissions that fail softly: bad context id, bad or missing XML.
SoftSubmissions ==
    { Submission("string", Some(XmlText(DocOne)), None, Some(MetaKV)),
      Submission("string", Some(XmlText(DocOne)), Some(<<>>), Some(MetaKV)),
      Submission("bytes", Some(XmlText(DocOne)), Some(<<" ", "\t">>), None),
      Submission("string", None, Some(<<"c">>), Some(MetaKV)),
      Submission("bytes", Some(EmptyText), Some(<<"c">>), Some(MetaKV)),
      Submission("string", Some(MalformedText), Some(<<"c">>), None),
      Submission("element", None, Some(<<"c">>), Some(MetaKV)) }

Submissions == GoodSubmissions \cup SoftSubmissions

InitArgs(session, base_url, batch_size, queue_capacity, on_error) ==
    [session |-> session, base_url |-> base_url, batch_size |-> batch_size,
     queue_capacity |-> queue_capacity, on_error |-> on_error]

\* Error callbacks: none, one that returns, one that raises.
Handlers == {"None", "cb_ok", "cb_raise"}

Threads == {"t1", "t2"}

\* ----------------------------------------------------------------- state
VARIABLES
    \* module-level state of ceremony_catalog_sdk
    queue,                  \* _queue: 0 (None) or an index into queues
    worker_thread,          \* _worker_thread: 0 (None) or an index into workers
    session,                \* _session: "None" or a session object
    base_url,               \* _base_url
    batch_size,             \* _batch_size
    global_error_handler,   \* _global_error_handler, one of Handlers
    initialized,            \* _initialized
    state_lock,             \* _state_lock: "free" or the thread holding it
    \* heaps
    queues,                 \* the queue.Queue objects created so far
    workers,                \* the worker threads started so far
    \* the caller threads, each inside at most one call of the public API
    callers,
    \* history: how many calls of each kind have started, and what the last
    \* step did that the outside can see (a call returning, a POST leaving,
    \* a failure handed to the error sink)
    calls,
    last,
    \* history: the ids of the work items POSTed, in the order of the POSTs
    \* (successive POSTs of one work item count once)
    served,
    \* outside the engine, each used by a specification of its own:
    extract,                \* an extraction: the caller's mapping, the records
    client,                 \* a TestGenApiClient in a call, and its server
    gen                     \* an XmlGenerator / DistributionConfig call

vars == <<queue, worker_thread, session, base_url, batch_size,
          global_error_handler, initialized, state_lock, queues, workers,
          callers, calls, last, served, extract, client, gen>>

\* What the engine's specifications leave alone.
aside == <<extract, client, gen>>

Idle == [pc |-> "idle"]

engine == <<queue, worker_thread, session, base_url, batch_size,
            global_error_handler, initialized>>

\* A caller thread between calls.
IdleCaller == [pc |-> "idle", args |-> None, work_item |-> None]

\* threading.Thread(target=_process_queue) before it has run a line. q is the
\* queue object a blocked get() waits on; url, step, i are the locals of
\* _process_work_item and step_now the slice length of the current batch;
\* sent and nposts (history) are the observations and the number of POSTs
\* that left for the current work item.
NewWorker ==
    [pc |-> "start", q |-> 0, work_item |-> None, url |-> <<>>, step |-> 0,
     step_now |-> 0, i |-> 0, sent |-> <<>>, nposts |-> 0]

\* queue.Queue(maxsize): items in FIFO order and the unfinished-task count;
\* arrivals (history) lists the work items it accepted (id and producer),
\* in order.
NewQueue(maxsize) ==
    [maxsize |-> maxsize, items |-> <<>>, unfinished |-> 0, arrivals |-> <<>>]

\* queue.Queue.full(): a maxsize <= 0 means unbounded.
QueueFull(q) == q.maxsize > 0 /\ Len(q.items) >= q.maxsize

NoEvent == [kind |-> "none"]

Init ==
    /\ queue = 0
    /\ worker_thread = 0
    /\ session = "None"
    /\ base_url = <<>>
    /\ batch_size = DEFAULT_BATCH_SIZE
    /\ global_error_handler = "None"
    /\ initialized = FALSE
    /\ state_lock = "free"
    /\ queues = <<>>
    /\ workers = <<>>
    /\ callers = [t \in Threads |-> IdleCaller]
    /\ calls = [initialize |-> 0, submit |-> 0, reset |-> 0, shutdown |-> 0]
    /\ last = NoEvent
    /\ served = <<>>
    /\ extract = Idle
    /\ client = Idle
    /\ gen = Idle

\* ------------------------------------------------------------ error sink
SafeInvokeLeaky(on_error, ex) ==
    [invoked |-> on_error # "None", raised |-> on_error = "cb_raise"]

\* _safe_invoke_error_callback(on_error, ex): whether the callback was
\* invoked, and whether an exception leaves the function (the callback's own
\* exception is swallowed).
_safe_invoke_error_callback(on_error, ex) ==
    [invoked |-> on_error # "None", raised |-> FALSE]

Exc(type) ==
    [type |-> type, message |-> <<>>, status_code |-> None,
     response_content |-> None, cause |-> None]

\* The call `op` of thread t returns: normally or with an exception reaching
\* the caller, after cb invocations of the error callback.
Returned(t, op, raised, outcome, cb) ==
    [kind |-> "return", thread |-> t, op |-> op,
     ret |-> IF raised THEN "raised" ELSE "normal",
     outcome |-> outcome, cb |-> cb, args |-> None]

\* ------------------------------------------------------------ initialize
\* `with _state_lock: if _initialized: return` - the call starts when it
\* gets the lock.
InitCheck(t, a) ==
    /\ callers[t].pc = "idle"
    /\ calls.initialize < MaxInit
    /\ state_lock = "free"
    /\ calls' = [calls EXCEPT !.initialize = @ + 1]
    /\ IF initialized
       THEN /\ callers' = callers
            /\ last' = Returned(t, "initialize", FALSE, "ignored", 0)
       ELSE /\ callers' = [callers EXCEPT ![t].pc = "init_config",
                                          ![t].args = Some(a)]
            /\ last' = NoEvent
    /\ UNCHANGED <<aside, served, engine, state_lock, queues, workers>>

EffectiveBatchSize(n) == IF n > 0 THEN n ELSE DEFAULT_BATCH_SIZE

\* _session, _base_url, _batch_size, _global_error_handler are assigned.
InitConfig(t) ==
    /\ callers[t].pc = "init_config"
    /\ LET a == Get(callers[t].args) IN
        /\ session' = a.session
        /\ base_url' = IF Truthy(a.base_url)
                       THEN RStrip(Get(a.base_url), {"/"}) ELSE <<>>
        /\ batch_size' = EffectiveBatchSize(a.batch_size)
        /\ global_error_handler' = a.on_error
    /\ callers' = [callers EXCEPT ![t].pc = "init_queue"]
    /\ last' = NoEvent
    /\ UNCHANGED <<aside, served, queue, worker_thread, initialized, state_lock, queues,
                   workers, calls>>

\* _queue = queue.Queue(maxsize=queue_capacity), then
\* _worker_thread = threading.Thread(...); _worker_thread.start()
InitQueueAndThread(t) ==
    /\ callers[t].pc = "init_queue"
    /\ queues' = Append(queues, NewQueue(Get(callers[t].args).queue_capacity))
    /\ queue' = Len(queues) + 1
    /\ workers' = Append(workers, NewWorker)
    /\ worker_thread' = Len(workers) + 1
    /\ callers' = [callers EXCEPT ![t].pc = "init_flag"]
    /\ last' = NoEvent
    /\ UNCHANGED <<aside, served, session, base_url, batch_size, global_error_handler,
                   initialized, state_lock, calls>>

\* `with _state_lock: _initialized = True`, and the call returns.
InitFlag(t) ==
    /\ callers[t].pc = "init_flag"
    /\ state_lock = "free"
    /\ initialized' = TRUE
    /\ callers' = [callers EXCEPT ![t] = IdleCaller]
    /\ last' = [Returned(t, "initialize", FALSE, "initialized", 0)
                   EXCEPT !.args = callers[t].args]
    /\ UNCHANGED <<aside, served, queue, worker_thread, session, base_url, batch_size,
                   global_error_handler, state_lock, queues, workers, calls>>

\* ----------------------------------------------------------------- reset
\* reset() holds _state_lock for all of its assignments; the lock does not
\* stop the readers that take no lock from running between them.
ResetQueue(t) ==
    /\ callers[t].pc = "idle"
    /\ calls.reset < MaxReset
    /\ state_lock = "free"
    /\ state_lock' = t
    /\ calls' = [calls EXCEPT !.reset = @ + 1]
    /\ queue' = 0
    /\ worker_thread' = 0
    /\ callers' = [callers EXCEPT ![t].pc = "reset_config"]
    /\ last' = NoEvent
    /\ UNCHANGED <<aside, served, session, base_url, batch_size, global_error_handler,
                   initialized, queues, workers>>

ResetConfig(t) ==
    /\ callers[t].pc = "reset_config"
    /\ session' = "None"
    /\ base_url' = <<>>
    /\ batch_size' = DEFAULT_BATCH_SIZE
    /\ global_error_handler' = "None"
    /\ callers' = [callers EXCEPT ![t].pc = "reset_flag"]
    /\ last' = NoEvent
    /\ UNCHANGED <<aside, served, queue, worker_thread, initialized, state_lock, queues,
                   workers, calls>>

ResetFlag(t) ==
    /\ callers[t].pc = "reset_flag"
    /\ initialized' = FALSE
    /\ state_lock' = "free"
    /\ callers' = [callers EXCEPT ![t] = IdleCaller]
    /\ last' = Returned(t, "reset", FALSE, "reset", 0)
    /\ UNCHANGED <<aside, served, queue, worker_thread, session, base_url, batch_size,
                   global_error_handler, queues, workers, calls>>

\* ---------------------------------------------------------------- intake
\* id and producer (history) name the intake call and the thread it came from.
ObservationWorkItem(context_id, observations, id, producer) ==
    [context_id |-> context_id, observations |-> observations, id |-> id,
     producer |-> producer]

\* An intake call returns; input is the submission, once it has been read.
IntakeReturned(t, raised, outcome, cb, args) ==
    [kind |-> "return", thread |-> t, op |-> "submit", input |-> args.input,
     ret |-> IF raised THEN "raised" ELSE "normal",
     outcome |-> outcome, cb |-> cb, id |-> args.id,
     after_shutdown |-> args.after_shutdown]

\* _enqueue_work, `if not _initialized` - the first line of every intake
\* call. The call is numbered (id) so that its work item can be followed.
EnqueueCheckInitialized(t) ==
    /\ callers[t].pc = "idle"
    /\ calls.submit < MaxSubmit
    /\ calls' = [calls EXCEPT !.submit = @ + 1]
    /\ LET args == [id |-> calls.submit + 1, input |-> None,
                    after_shutdown |-> calls.shutdown > 0]
       IN IF ~initialized
          THEN /\ callers' = callers
               /\ last' = IntakeReturned(t, FALSE,
                                         "not_initialized", 0, args)
          ELSE /\ callers' = [callers EXCEPT
                     ![t].pc = "enqueue_check_queue", ![t].args = Some(args)]
               /\ last' = NoEvent
    /\ UNCHANGED <<aside, served, engine, state_lock, queues, workers>>

\* `or _queue is None`, then validation and extraction on the caller's
\* thread. The arguments of the call are first read here.
EnqueueValidate(t, in) ==
    /\ callers[t].pc = "enqueue_check_queue"
    /\ LET observations == extraction_func(in.entry, in.xml, in.metadata)
           args == [Get(callers[t].args) EXCEPT !.input = Some(in)]
           soft == IF queue = 0 THEN "not_initialized"
                   ELSE IF ~Truthy(in.context_id)
                           \/ Len(Strip(Get(in.context_id))) = 0
                   THEN "soft_context"
                   ELSE IF Len(observations) = 0 THEN "soft_empty"
                   ELSE "pass"
       IN IF soft # "pass"
          THEN /\ callers' = [callers EXCEPT ![t] = IdleCaller]
               /\ last' = IntakeReturned(t, FALSE, soft, 0, args)
          ELSE /\ callers' = [callers EXCEPT
                     ![t].pc = "enqueue_put",
                     ![t].args = Some(args),
                     ![t].work_item = Some(ObservationWorkItem(
                         Get(in.context_id), observations, args.id, t))]
               /\ last' = NoEvent
    /\ UNCHANGED <<aside, served, engine, state_lock, queues, workers, calls>>

PutEvicting(q, work_item) ==
    IF QueueFull(q)
    THEN [q EXCEPT !.items = Append(Tail(@), work_item),
                   !.arrivals = Append(@, [id |-> work_item.id,
                                           producer |-> work_item.producer])]
    ELSE [q EXCEPT !.items = Append(@, work_item), !.unfinished = @ + 1,
                   !.arrivals = Append(@, [id |-> work_item.id,
                                           producer |-> work_item.producer])]

\* queue.Queue.put_nowait: the queue with the item appended, or the queue as
\* it is when it is full (queue.Full, which the caller swallows).
put_nowait(q, work_item) ==
    IF QueueFull(q) THEN q
    ELSE [q EXCEPT !.items = Append(@, work_item), !.unfinished = @ + 1,
                   !.arrivals = Append(@, [id |-> work_item.id,
                                           producer |-> work_item.producer])]

\* `_queue.put_nowait(work_item)`: _queue is read again; a None raises
\* AttributeError into the outer except.
EnqueuePut(t) ==
    /\ callers[t].pc = "enqueue_put"
    /\ IF queue = 0
       THEN /\ callers' = [callers EXCEPT ![t].pc = "enqueue_except"]
            /\ last' = NoEvent
            /\ UNCHANGED queues
       ELSE /\ queues' = [queues EXCEPT ![queue] =
                            put_nowait(@, Get(callers[t].work_item))]
            /\ callers' = [callers EXCEPT ![t] = IdleCaller]
            /\ last' = IntakeReturned(t, FALSE,
                          IF QueueFull(queues[queue]) THEN "dropped"
                          ELSE "accepted", 0, Get(callers[t].args))
    /\ UNCHANGED <<aside, served, engine, state_lock, workers, calls>>

\* `except Exception as ex: _safe_invoke_error_callback(...)`
EnqueueExcept(t) ==
    /\ callers[t].pc = "enqueue_except"
    /\ LET r == _safe_invoke_error_callback(global_error_handler,
                                            Exc("AttributeError"))
       IN last' = IntakeReturned(t, r.raised, "error",
                                 IF r.invoked THEN 1 ELSE 0,
                                 Get(callers[t].args))
    /\ callers' = [callers EXCEPT ![t] = IdleCaller]
    /\ UNCHANGED <<aside, served, engine, state_lock, queues, workers, calls>>

\* -------------------------------------------------------------- shutdown
\* The module defines no attribute `shutdown`: sdk.shutdown(timeout=...)
\* raises AttributeError at the call site and changes nothing.
Shutdown(t) ==
    /\ callers[t].pc = "idle"
    /\ calls.shutdown < MaxShutdown
    /\ calls' = [calls EXCEPT !.shutdown = @ + 1]
    /\ last' = Returned(t, "shutdown", TRUE, "AttributeError", 0)
    /\ UNCHANGED <<aside, served, engine, state_lock, queues, workers, callers>>
\* ------------------------------------------------------------- transport
\* What session.post can do: return a response with a status code and a
\* text, or raise requests.Timeout, another requests.RequestException, or
\* any other exception.
Response(status_code) ==
    [kind |-> "response", status_code |-> status_code, text |-> <<"body">>]
Raises(type) == [kind |-> type, status_code |-> 0, text |-> <<>>]

StatusCodes == {200, 204, 304, 404, 500}

PostOutcomes ==
    {Response(s) : s \in StatusCodes}
        \cup {Raises("Timeout"), Raises("RequestException"), Raises("Exception")}

\* requests.Response.ok: raise_for_status() does not raise, which it does
\* for the statuses 400..599.
ResponseOk(response) ==
    ~(400 <= response.status_code /\ response.status_code < 600)

CatalogApiException(message, status_code, response_content, cause) ==
    [type |-> "CatalogApiException", message |-> message,
     status_code |-> status_code, response_content |-> response_content,
     cause |-> cause]

\* _send_batch after session.post has returned or raised: the exceptions it
\* hands to _safe_invoke_error_callback, in order.
SendBatchErrors(outcome) ==
    CASE outcome.kind = "response" ->
            IF ResponseOk(outcome) THEN <<>>
            ELSE <<CatalogApiException(
                      <<"API returned ", outcome.status_code, ": ">>
                          \o outcome.text,
                      Some(outcome.status_code), Some(outcome.text), None)>>
      [] outcome.kind = "Timeout" ->
            <<CatalogApiException(<<"Request timed out">>, None, None,
                                  Some("Timeout"))>>
      [] outcome.kind = "RequestException" ->
            <<CatalogApiException(<<"Network error">>, None, None,
                                  Some("RequestException"))>>
      [] OTHER -> <<Exc(outcome.kind)>>

\* ---------------------------------------------------------------- worker
Workers == 1..Len(workers)

\* The worker handed the exceptions `routed` to the error sink, which
\* invoked `handler` for each.
Routed(w, cause, routed) ==
    [kind |-> "sink", worker |-> w, cause |-> cause, routed |-> routed,
     handler |-> global_error_handler]

AfterSinkFatal(w, routed, next) ==
    IF Len(routed) > 0 THEN [workers[w] EXCEPT !.pc = "dead"] ELSE next

\* A worker that handed exceptions to the error sink goes on as `next`,
\* unless an exception of the callback got out of every handler: then the
\* thread dies.
AfterSink(w, routed, next) ==
    IF \E k \in 1..Len(routed) :
          _safe_invoke_error_callback(global_error_handler, routed[k]).raised
    THEN [workers[w] EXCEPT !.pc = "dead"]
    ELSE next

\* _process_queue, `if _queue is None: return`
WorkerStart(w) ==
    /\ workers[w].pc = "start"
    /\ workers' = [workers EXCEPT ![w].pc =
                      IF queue = 0 THEN "exited" ELSE "loop"]
    /\ last' = NoEvent
    /\ UNCHANGED <<aside, served, engine, state_lock, queues, callers, calls>>

DequeueNewest(w, k) ==
    /\ workers' = [workers EXCEPT
          ![w].pc = "process", ![w].q = k,
          ![w].work_item = Some(queues[k].items[Len(queues[k].items)])]
    /\ queues' = [queues EXCEPT
          ![k].items = SubSeq(@, 1, Len(@) - 1)]
    /\ last' = [kind |-> "get", worker |-> w, queue |-> k,
                id |-> queues[k].items[Len(queues[k].items)].id]

\* The worker takes the head of queue object k.
Dequeue(w, k) ==
    /\ workers' = [workers EXCEPT
          ![w].pc = "process", ![w].q = k,
          ![w].work_item = Some(Head(queues[k].items))]
    /\ queues' = [queues EXCEPT ![k].items = Tail(@)]
    /\ last' = [kind |-> "get", worker |-> w, queue |-> k,
                id |-> Head(queues[k].items).id]

\* `work_item = _queue.get()`: _queue is read, then the call blocks on that
\* queue object until it holds an item. A None raises AttributeError, which
\* the except of the loop body routes to the sink; the loop goes on.
WorkerGet(w) ==
    /\ workers[w].pc = "loop"
    /\ IF queue = 0
       THEN /\ workers' = [workers EXCEPT ![w] =
                  AfterSink(w, <<Exc("AttributeError")>>, workers[w])]
            /\ last' = Routed(w, "get", <<Exc("AttributeError")>>)
            /\ UNCHANGED queues
       ELSE IF Len(queues[queue].items) = 0
       THEN /\ workers' = [workers EXCEPT ![w].pc = "blocked", ![w].q = queue]
            /\ last' = NoEvent
            /\ UNCHANGED queues
       ELSE Dequeue(w, queue)
    /\ UNCHANGED <<aside, served, engine, state_lock, callers, calls>>

\* The blocked get() returns once its queue holds an item.
WorkerTake(w) ==
    /\ workers[w].pc = "blocked"
    /\ Len(queues[workers[w].q].items) > 0
    /\ Dequeue(w, workers[w].q)
    /\ UNCHANGED <<aside, served, engine, state_lock, callers, calls>>

\* The batch loop after the batch at index i: the next index of the range,
\* or the end of _process_work_item.
NextBatch(wk) ==
    IF wk.i + wk.step < Len(Get(wk.work_item).observations)
    THEN [wk EXCEPT !.pc = "batch", !.i = @ + wk.step]
    ELSE [wk EXCEPT !.pc = "task_done"]

\* _process_work_item up to the loop: url from _base_url, and
\* range(0, len(observations), _batch_size).
WorkerProcess(w) ==
    /\ workers[w].pc = "process"
    /\ LET item == Get(workers[w].work_item) IN
       workers' = [workers EXCEPT ![w] =
          [@ EXCEPT !.url = base_url \o OBSERVATIONS_ENDPOINT(item.context_id),
                    !.step = batch_size,
                    !.i = 0,
                    !.sent = <<>>,
                    !.nposts = 0,
                    !.pc = IF Len(item.observations) = 0 THEN "task_done"
                           ELSE "batch"]]
    /\ last' = NoEvent
    /\ UNCHANGED <<aside, served, engine, state_lock, queues, callers, calls>>

\* One iteration: batch = observations[i:i + _batch_size], then _send_batch
\* up to `if _session is None: return`.
WorkerBatch(w) ==
    /\ workers[w].pc = "batch"
    /\ workers' = [workers EXCEPT ![w] =
          IF session = "None"
          THEN NextBatch(@)
          ELSE [@ EXCEPT !.pc = "send", !.step_now = batch_size]]
    /\ last' = NoEvent
    /\ UNCHANGED <<aside, served, engine, state_lock, queues, callers, calls>>

\* `_session.post(url, json=json_data, ...)`: _session is read again (a None
\* raises AttributeError into `except Exception`), and the request leaves.
WorkerPost(w) ==
    /\ workers[w].pc = "send"
    /\ LET wk == workers[w]
           json == Slice(Get(wk.work_item).observations, wk.i, wk.step_now)
       IN IF session = "None"
          THEN /\ workers' = [workers EXCEPT ![w] =
                     AfterSink(w, <<Exc("AttributeError")>>, NextBatch(wk))]
               /\ last' = Routed(w, "post", <<Exc("AttributeError")>>)
               /\ UNCHANGED served
          ELSE /\ workers' = [workers EXCEPT ![w] =
                     [wk EXCEPT !.pc = "posting", !.sent = @ \o json,
                                !.nposts = @ + 1]]
               /\ last' = [kind |-> "post", worker |-> w,
                           session |-> session, url |-> wk.url,
                           id |-> Get(wk.work_item).id, start |-> wk.i,
                           json |-> json]
               /\ served' = IF Len(served) > 0
                                /\ served[Len(served)] = Get(wk.work_item).id
                             THEN served
                             ELSE Append(served, Get(wk.work_item).id)
    /\ UNCHANGED <<aside, engine, state_lock, queues, callers, calls>>

\* session.post returns or raises; _send_batch classifies the outcome.
WorkerResponse(w, outcome) ==
    /\ workers[w].pc = "posting"
    /\ workers' = [workers EXCEPT ![w] =
          AfterSink(w, SendBatchErrors(outcome), NextBatch(workers[w]))]
    /\ last' = [Routed(w, "response", SendBatchErrors(outcome))
                   EXCEPT !.kind = "response"]
                @@ [outcome |-> outcome]
    /\ UNCHANGED <<aside, served, engine, state_lock, queues, callers, calls>>

\* `finally: _queue.task_done()`: _queue is read again. A None raises
\* AttributeError and a queue with no unfinished task raises ValueError;
\* the except of the loop body routes either to the sink.
WorkerTaskDone(w) ==
    /\ workers[w].pc = "task_done"
    /\ LET next == [workers[w] EXCEPT !.pc = "loop", !.work_item = None]
       IN IF queue = 0
          THEN /\ workers' = [workers EXCEPT ![w] =
                     AfterSink(w, <<Exc("AttributeError")>>, next)]
               /\ last' = Routed(w, "task_done", <<Exc("AttributeError")>>)
               /\ UNCHANGED queues
          ELSE IF queues[queue].unfinished = 0
          THEN /\ workers' = [workers EXCEPT ![w] =
                     AfterSink(w, <<Exc("ValueError")>>, next)]
               /\ last' = Routed(w, "task_done", <<Exc("ValueError")>>)
               /\ UNCHANGED queues
          ELSE /\ workers' = [workers EXCEPT ![w] = next]
               /\ queues' = [queues EXCEPT ![queue].unfinished = @ - 1]
               /\ last' = [kind |-> "task_done", worker |-> w]
    /\ UNCHANGED <<aside, served, engine, state_lock, callers, calls>>
\* --------------------------------------------------------- specifications
Worker(w, outcomes) ==
    \/ WorkerStart(w)
    \/ WorkerGet(w)
    \/ WorkerTake(w)
    \/ WorkerProcess(w)
    \/ WorkerBatch(w)
    \/ WorkerPost(w)
    \/ \E outcome \in outcomes : WorkerResponse(w, outcome)
    \/ WorkerTaskDone(w)

Intake(t, submissions) ==
    \/ EnqueueCheckInitialized(t)
    \/ \E in \in submissions : EnqueueValidate(t, in)
    \/ EnqueuePut(t)

Initialize(t, arguments) ==
    \/ \E a \in arguments : InitCheck(t, a)
    \/ InitConfig(t)
    \/ InitQueueAndThread(t)
    \/ InitFlag(t)

Reset(t) ==
    \/ ResetQueue(t)
    \/ ResetConfig(t)
    \/ ResetFlag(t)

\* Spec: any thread calls initialize, reset and the intake at any time, so
\* that initialize races initialize, and reset races everything.
RaceInitArgs ==
    { InitArgs("s1", Some(<<"h", "/">>), 2, 1, "cb_raise"),
      InitArgs("s2", None, 0, 2, "cb_ok") }

RaceSubmissions ==
    { Submission("bytes", Some(XmlText(DocThree)), Some(<<" ", "d">>), None) }
        \cup SoftSubmissions

RaceOutcomes == {Response(200), Response(500)}

Next ==
    \/ \E t \in Threads : Initialize(t, RaceInitArgs)
    \/ \E t \in Threads : Reset(t)
    \/ \E t \in Threads : Intake(t, RaceSubmissions)
    \/ \E t \in Threads : EnqueueExcept(t)
    \/ \E w \in Workers : Worker(w, RaceOutcomes)

Spec == Init /\ [][Next]_vars

\* SpecUsage: the engine used as its module docstring says - initialize() is
\* called by the startup thread (calls after the first are ignored), every
\* thread submits, and reset(), which is for tests only, is not called (so
\* _queue is never None at put_nowait). The tests' sdk.shutdown() calls are
\* made as well.
StartupThread == "t1"

UsageInitArgs ==
    { InitArgs("s1", Some(<<"h", "/">>), 2, 1, "cb_raise"),
      InitArgs("s1", None, 0, 2, "cb_ok"),
      InitArgs("s2", Some(<<"h", "/", "/">>), 1, 2, "None"),
      InitArgs("s2", Some(<<"g">>), -1, 1, "cb_ok") }

NextUsage ==
    \/ Initialize(StartupThread, UsageInitArgs)
    \/ \E t \in Threads : Intake(t, Submissions)
    \/ \E t \in Threads : Shutdown(t)
    \/ \E w \in Workers : Worker(w, PostOutcomes)

SpecUsage == Init /\ [][NextUsage]_vars

\* SpecUsageFair: SpecUsage with the worker thread scheduled fairly - a
\* step the worker can take (a blocked get() returning, a POST returning
\* or raising) is eventually taken. Nothing is assumed of the callers.
SpecUsageFair ==
    SpecUsage /\ WF_vars(\E w \in Workers : Worker(w, PostOutcomes))

\* SpecConcurrent: initialize() called by every thread at once and reset()
\* never called, the worker threads scheduled fairly: a step a worker can
\* take (a get() on a queue that holds an item, a POST returning) is
\* eventually taken. Nothing is assumed of the callers.
NextConcurrent ==
    \/ \E t \in Threads : Initialize(t, RaceInitArgs)
    \/ \E t \in Threads : Intake(t, RaceSubmissions)
    \/ \E w \in Workers : Worker(w, RaceOutcomes)

SpecConcurrent ==
    /\ Init /\ [][NextConcurrent]_vars
    /\ \A w \in 1..MaxInit : WF_vars(w \in Workers /\ Worker(w, RaceOutcomes))

\* SpecRestart: one thread calls initialize() and reset(), one call after
\* the other, so that a reset() is followed by a second initialize(); every
\* thread submits meanwhile.
NextRestart ==
    \/ Initialize(StartupThread, RaceInitArgs)
    \/ Reset(StartupThread)
    \/ \E t \in Threads : Intake(t, RaceSubmissions)
    \/ \E t \in Threads : EnqueueExcept(t)
    \/ \E w \in Workers : Worker(w, RaceOutcomes)

SpecRestart == Init /\ [][NextRestart]_vars

\* ------------------------------------------------------------ extraction
\* SpecExtract: the extractor applied to documents, outside the engine. A
\* caller's metadata mapping is an object: owner tells whose object it is,
\* items is its content at the moment.
MaxUpdates == 3

Mapping(owner, items) == [owner |-> owner, items |-> items]

MetaOther == <<[key |-> "k", value |-> "w"]>>

CallerMappings ==
    { None, Some(Mapping("caller", <<>>)), Some(Mapping("caller", MetaKV)) }

\* Documents: a root with up to two children, each a leaf or a container of
\* one leaf; tags with and without a namespace, texts absent, empty, blank
\* and present, attributes with and without a namespace.
DocTags == { <<"A">>, <<"{", "u", "}", "A">>, <<"B">> }
DocTexts == { None, Some(<<>>), Some(<<" ">>), Some(<<"v">>) }
DocAttribs ==
    { <<[name |-> <<"a">>, value |-> <<"x">>]>>,
      <<[name |-> <<"{", "u", "}", "a">>, value |-> <<>>],
        [name |-> <<"a">>, value |-> <<" ">>]>> }
DocLeaves ==
    { Elem(t, x, <<>>, <<>>) : t \in DocTags, x \in DocTexts }
        \cup { Elem(<<"B">>, Some(<<"v">>), a, <<>>) : a \in DocAttribs }
DocContainers ==
    { Elem(<<"B">>, Some(<<"t">>), <<[name |-> <<"a">>, value |-> <<"x">>]>>,
           <<l>>) : l \in { Elem(t, Some(<<"v">>), <<>>, <<>>) : t \in DocTags } }
DocSecond ==
    { Elem(<<"{", "u", "}", "A">>, None, <<>>, <<>>),
      Elem(<<"B">>, Some(<<"v">>), <<>>, <<>>),
      Elem(<<"B">>, Some(<<>>), <<>>, <<Elem(<<"A">>, None, <<>>, <<>>)>>) }
DocChildren ==
    { <<>> } \cup { <<n>> : n \in DocLeaves \cup DocContainers }
             \cup { <<n1, n2>> : n1 \in DocLeaves, n2 \in DocSecond }
Documents ==
    { Elem(<<"R">>, Some(<<"\n">>), <<>>, c) : c \in DocChildren }
        \cup { Elem(<<"{", "u", "}", "R">>, None,
                    <<[name |-> <<"a">>, value |-> <<"x">>]>>, c) :
                c \in DocChildren }

\* The xml argument each entry point gets for a document.
XmlArgument(entry, doc) ==
    IF entry = "element" THEN Some(doc) ELSE Some(XmlText(doc))

\* `metadata or {}`: the caller's mapping, or a new empty one when it is
\* None or empty.
OrEmptyDict(metadata) ==
    IF IsNone(metadata) \/ Len(Get(metadata).items) = 0
    THEN Mapping("extractor", <<>>)
    ELSE Get(metadata)

DictAlias(mapping) == mapping

\* dict(metadata): a new mapping object with the same items.
DictCopy(mapping) == Mapping("record", mapping.items)

\* One call of an extraction entry point: the records, each with the
\* mapping object its FieldStatistics was built with.
ExtractCall(entry, doc, metadata) ==
    /\ extract.pc = "idle"
    /\ LET items == IF IsNone(metadata) THEN None
                    ELSE Some(Get(metadata).items)
           observations == extraction_func(entry, XmlArgument(entry, doc),
                                           items)
           held == DictCopy(OrEmptyDict(metadata))
       IN extract' =
            [pc |-> "extracted", entry |-> entry, doc |-> doc,
             passed |-> items, mapping |-> metadata,
             records |-> [k \in 1..Len(observations) |->
                 [observations[k] EXCEPT
                     !.metadata = Mapping(held.owner, @)]]]
    /\ UNCHANGED <<engine, state_lock, queues, workers, callers, calls, last,
                   served, client, gen>>

\* The caller changes its mapping after the call has returned: every
\* reference to the caller's object sees the new items.
MutateMapping(items) ==
    /\ extract.pc = "extracted"
    /\ ~IsNone(extract.mapping)
    /\ Get(extract.mapping).items # items
    /\ extract' = [extract EXCEPT
          !.mapping = Some(Mapping("caller", items)),
          !.records = [k \in 1..Len(extract.records) |->
              IF extract.records[k].metadata.owner = "caller"
              THEN [extract.records[k] EXCEPT !.metadata.items = items]
              ELSE extract.records[k]]]
    /\ UNCHANGED <<engine, state_lock, queues, workers, callers, calls, last,
                   served, client, gen>>

\* CatalogObservationDto.to_dict, with the mapping as it is now.
to_dict(record) ==
    [metadata |-> record.metadata.items, fieldPath |-> record.field_path,
     count |-> record.count, hasNull |-> record.has_null,
     hasEmpty |-> record.has_empty]

\* `json_data = [obs.to_dict() for obs in batch]`, when the worker sends.
SerializeRecords ==
    /\ extract.pc = "extracted"
    /\ extract' = [pc |-> "serialized", entry |-> extract.entry,
                   doc |-> extract.doc, passed |-> extract.passed,
                   mapping |-> extract.mapping,
                   json_data |-> [k \in 1..Len(extract.records) |->
                                    to_dict(extract.records[k])]]
    /\ UNCHANGED <<engine, state_lock, queues, workers, callers, calls, last,
                   served, client, gen>>

\* Any sequence of _update_field_statistics calls on one field_stats dict;
\* updates (history) lists the calls made.
StatPaths == { <<"/", "R">>, <<"/", "R", "/@", "a">> }

UpdateFieldStatistics(field_path, value) ==
    /\ extract.pc \in {"idle", "stats"}
    /\ LET field_stats == IF extract.pc = "idle" THEN <<>>
                          ELSE extract.field_stats
           updates == IF extract.pc = "idle" THEN <<>> ELSE extract.updates
       IN /\ Len(updates) < MaxUpdates
          /\ extract' =
               [pc |-> "stats",
                field_stats |-> _update_field_statistics(
                                    field_stats, field_path, MetaKV, value),
                updates |-> Append(updates, [field_path |-> field_path,
                                             value |-> value])]
    /\ UNCHANGED <<engine, state_lock, queues, workers, callers, calls, last,
                   served, client, gen>>

NextExtract ==
    \/ \E entry \in {"bytes", "string", "element"}, doc \in Documents,
          metadata \in CallerMappings : ExtractCall(entry, doc, metadata)
    \/ \E items \in {<<>>, MetaKV, MetaOther} : MutateMapping(items)
    \/ SerializeRecords
    \/ \E field_path \in StatPaths,
          value \in DocTexts : UpdateFieldStatistics(field_path, value)

SpecExtract == Init /\ [][NextExtract]_vars

\* ------------------------------------------------- generator-side client
\* SpecClient: a TestGenApiClient making calls against a catalog server.
\* The server keeps whether the context exists and answers honestly or with
\* an error status, or the request fails on the network.
MaxRetries == 3
MaxCalls == 2

SubmissionResult(success, observation_count, error_message) ==
    [success |-> success, observation_count |-> observation_count,
     error_message |-> error_message]

ClientStatusCodes == {200, 202, 204, 304, 404, 500}

ClientOutcomes ==
    {Response(s) : s \in ClientStatusCodes}
        \cup {Raises("Timeout"), Raises("RequestException"), Raises("Exception")}

\* TestGenApiClient(base_url, max_retries=..., retry_delay=...), and the
\* server it talks to. posts, slept and outcomes (history) are the POSTs of
\* the current call, the time.sleep arguments and the outcomes of its
\* requests; get is the outcome of the call's existence GET.
NewClient(max_retries, retry_delay, exists) ==
    /\ client.pc = "idle"
    /\ client' = [pc |-> "ready", max_retries |-> max_retries,
                  retry_delay |-> retry_delay, exists |-> exists,
                  calls |-> 0, op |-> "none", n |-> 0, attempt |-> 0,
                  posts |-> 0, slept |-> <<>>, outcomes |-> <<>>,
                  get |-> None, result |-> None, ret |-> "none"]
    /\ UNCHANGED <<engine, state_lock, queues, workers, callers, calls, last,
                   served, extract, gen>>

\* A call begins on a client that is not in a call.
BeginCall(op, n) ==
    [client EXCEPT !.pc = "ready", !.calls = @ + 1, !.op = op, !.n = n,
                   !.attempt = 0, !.posts = 0, !.slept = <<>>,
                   !.outcomes = <<>>, !.get = None, !.result = None,
                   !.ret = "none"]

ClientFree == client.pc \in {"ready", "returned"} /\ client.calls < MaxCalls

\* The call returns `result`, or raises when raised is TRUE.
ClientReturn(c, result, raised) ==
    [c EXCEPT !.pc = "returned", !.result = result,
              !.ret = IF raised THEN "raised" ELSE "normal"]

\* submit_observations(context_id, observations) with n observations:
\* `if not observations`, else the first iteration of the retry loop.
SubmitObservations(n) ==
    /\ ClientFree
    /\ client' = IF n = 0
                 THEN ClientReturn(BeginCall("submit", n),
                                   Some(SubmissionResult(TRUE, 0, None)),
                                   FALSE)
                 ELSE [BeginCall("submit", n) EXCEPT !.pc = "attempt"]
    /\ UNCHANGED <<engine, state_lock, queues, workers, callers, calls, last,
                   served, extract, gen>>

\* `for attempt in range(self.max_retries)`: the next POST leaves, or the
\* range is exhausted and the call returns "Max retries exceeded".
SubmitAttempt ==
    /\ client.pc = "attempt"
    /\ client' = IF client.attempt < client.max_retries
                 THEN [client EXCEPT !.pc = "posting", !.posts = @ + 1]
                 ELSE ClientReturn(client,
                         Some(SubmissionResult(FALSE, 0,
                                 Some("Max retries exceeded"))), FALSE)
    /\ UNCHANGED <<engine, state_lock, queues, workers, callers, calls, last,
                   served, extract, gen>>

\* `response.status_code in (200, 201, 204)`
SubmitSucceeded(status_code) == status_code \in {200, 201, 204}

BackoffConstant(retry_delay, attempt) == retry_delay

\* `self.retry_delay * (attempt + 1)`
Backoff(retry_delay, attempt) == retry_delay * (attempt + 1)

\* `if attempt < self.max_retries - 1: time.sleep(...); continue`, else the
\* failure result with the given message.
RetryOrFail(c, error_message) ==
    IF c.attempt < c.max_retries - 1
    THEN [c EXCEPT !.pc = "attempt",
                   !.slept = Append(@, Backoff(c.retry_delay, c.attempt)),
                   !.attempt = @ + 1]
    ELSE ClientReturn(c, Some(SubmissionResult(FALSE, 0, Some(error_message))),
                      FALSE)

\* The POST of submit_observations returns or raises.
SubmitResponse(outcome) ==
    /\ client.pc = "posting"
    /\ LET c == [client EXCEPT !.outcomes = Append(@, outcome)]
       IN client' =
            CASE outcome.kind = "response"
                    /\ SubmitSucceeded(outcome.status_code) ->
                    ClientReturn(c, Some(SubmissionResult(TRUE, c.n, None)),
                                 FALSE)
              [] outcome.kind = "response"
                    /\ ~SubmitSucceeded(outcome.status_code)
                    /\ outcome.status_code >= 500 ->
                    RetryOrFail(c, "Server error")
              [] outcome.kind = "response"
                    /\ ~SubmitSucceeded(outcome.status_code)
                    /\ outcome.status_code < 500 ->
                    ClientReturn(c, Some(SubmissionResult(FALSE, 0,
                                            Some("Client error"))), FALSE)
              [] outcome.kind = "Timeout" ->
                    RetryOrFail(c, "Request timed out")
              [] outcome.kind = "RequestException" ->
                    RetryOrFail(c, "Network error")
              [] OTHER -> ClientReturn(c, None, TRUE)
    /\ UNCHANGED <<engine, state_lock, queues, workers, callers, calls, last,
                   served, extract, gen>>

\* What the server can answer to the existence GET and to the creating
\* POST, given whether the context exists.
GetOutcomes(exists) ==
    {Response(IF exists THEN 200 ELSE 404), Response(500),
     Raises("Timeout"), Raises("RequestException")}

CreateOutcomes(exists) ==
    {Response(IF exists THEN 409 ELSE 201), Response(200), Response(400),
     Response(500), Raises("Timeout"), Raises("RequestException")}

\* create_context(config): the POST leaves.
CreateContext ==
    /\ ClientFree
    /\ client' = [BeginCall("create", 0) EXCEPT !.pc = "creating",
                                                 !.posts = 1]
    /\ UNCHANGED <<engine, state_lock, queues, workers, callers, calls, last,
                   served, extract, gen>>

CreatedOnly(status_code) == status_code = 201

\* `status_code == 201` or `status_code == 409`
CreateSucceeded(status_code) == status_code \in {201, 409}

\* The POST of create_context returns or raises: True for 201 and 409,
\* RuntimeError otherwise. A 201 means the server has created the context.
CreateResponse(outcome) ==
    /\ client.pc = "creating"
    /\ outcome \in CreateOutcomes(client.exists)
    /\ LET c == [client EXCEPT
                    !.outcomes = Append(@, outcome),
                    !.exists = @ \/ (outcome.kind = "response"
                                        /\ outcome.status_code = 201)]
       IN client' =
            IF outcome.kind = "response"
                  /\ CreateSucceeded(outcome.status_code)
            THEN ClientReturn(c, Some(TRUE), FALSE)
            ELSE ClientReturn(c, None, TRUE)
    /\ UNCHANGED <<engine, state_lock, queues, workers, callers, calls, last,
                   served, extract, gen>>

\* ensure_context_exists(config): context_exists sends its GET.
EnsureContextExists ==
    /\ ClientFree
    /\ client' = [BeginCall("ensure", 0) EXCEPT !.pc = "checking"]
    /\ UNCHANGED <<engine, state_lock, queues, workers, callers, calls, last,
                   served, extract, gen>>

\* context_exists: `response.status_code == 200`, False for a
\* RequestException; ensure_context_exists returns True or goes on to
\* create_context.
ExistsResponse(outcome) ==
    /\ client.pc = "checking"
    /\ outcome \in GetOutcomes(client.exists)
    /\ LET c == [client EXCEPT !.get = Some(outcome)]
       IN client' =
            IF outcome.kind = "response" /\ outcome.status_code = 200
            THEN ClientReturn(c, Some(TRUE), FALSE)
            ELSE [c EXCEPT !.pc = "creating", !.posts = 1]
    /\ UNCHANGED <<engine, state_lock, queues, workers, callers, calls, last,
                   served, extract, gen>>

NextClient ==
    \/ \E max_retries \in 0..MaxRetries, retry_delay \in {1, 2},
          exists \in BOOLEAN : NewClient(max_retries, retry_delay, exists)
    \/ \E n \in {0, 1, 3} : SubmitObservations(n)
    \/ SubmitAttempt
    \/ \E outcome \in ClientOutcomes : SubmitResponse(outcome)
    \/ CreateContext
    \/ \E outcome \in CreateOutcomes(TRUE) \cup CreateOutcomes(FALSE) :
          CreateResponse(outcome)
    \/ EnsureContextExists
    \/ \E outcome \in GetOutcomes(TRUE) \cup GetOutcomes(FALSE) :
          ExistsResponse(outcome)

SpecClient == Init /\ [][NextClient]_vars

\* ------------------------------------------------ generator: distributions
\* SpecGen: DistributionConfig and XmlGenerator calls. random.random() and
\* random.randint are choices among their possible results; a rate is given
\* in percent.
Max(a, b) == IF a > b THEN a ELSE b

DistributionConfig(fill_rate, null_rate, empty_rate, repeat_range, field_overrides) ==
    [optional_field_fill_rate |-> fill_rate,
     null_rate |-> null_rate, empty_rate |-> empty_rate,
     repeat_range |-> repeat_range, field_overrides |-> field_overrides]

\* field_overrides[path] as from_meta_config builds it: the keys fillRate
\* and repeatRange, each present or not.
FieldOverride(path, fillRate, repeatRange) ==
    [path |-> path, fillRate |-> fillRate, repeatRange |-> repeatRange]

\* self.field_overrides.get(field_path, {}): the override, if there is one.
OverrideFor(distribution, field_path) ==
    LET hits == {k \in 1..Len(distribution.field_overrides) :
                    distribution.field_overrides[k].path = field_path}
    IN IF hits = {} THEN None
       ELSE Some(distribution.field_overrides[CHOOSE k \in hits : TRUE])

_get_field_fill_rate(distribution, field_path) ==
    LET override == OverrideFor(distribution, field_path)
    IN IF ~IsNone(override) /\ ~IsNone(Get(override).fillRate)
       THEN Get(Get(override).fillRate)
       ELSE distribution.optional_field_fill_rate

_get_field_null_rate(distribution, field_path) == distribution.null_rate

_get_field_empty_rate(distribution, field_path) == distribution.empty_rate

_get_field_repeat_range(distribution, field_path) ==
    LET override == OverrideFor(distribution, field_path)
    IN IF ~IsNone(override) /\ ~IsNone(Get(override).repeatRange)
       THEN Get(Get(override).repeatRange)
       ELSE distribution.repeat_range

\* random.random() < rate, random() being in [0, 1).
Chance(rate) ==
    IF rate <= 0 THEN {FALSE} ELSE IF rate >= 100 THEN {TRUE} ELSE BOOLEAN

should_include_optional(distribution, field_path) ==
    Chance(_get_field_fill_rate(distribution, field_path))

should_be_null(distribution, field_path) ==
    Chance(_get_field_null_rate(distribution, field_path))

should_be_empty(distribution, field_path) ==
    Chance(_get_field_empty_rate(distribution, field_path))

\* get_repeat_count up to its last line: effective_min and effective_max
\* as random.randint gets them. max_occurs is an Optional.
RepeatBounds(distribution, field_path, min_occurs, max_occurs) ==
    LET range == _get_field_repeat_range(distribution, field_path)
        effective_min == IF IsNone(max_occurs)
                         THEN Max(min_occurs, range[1])
                         ELSE Max(min_occurs, 1)
        first_max == IF IsNone(max_occurs) THEN range[2]
                     ELSE IF Get(max_occurs) > 0
                     THEN Min(Get(max_occurs), range[2])
                     ELSE range[2]
        at_least_min == IF effective_min > first_max THEN effective_min
                        ELSE first_max
        effective_max == IF at_least_min > 20 THEN 20 ELSE at_least_min
    IN <<effective_min, effective_max>>

\* get_repeat_count: random.randint(a, b) returns any integer of a..b and
\* raises ValueError when a > b.
get_repeat_count(distribution, field_path, min_occurs, max_occurs) ==
    LET bounds == RepeatBounds(distribution, field_path, min_occurs,
                               max_occurs)
    IN IF bounds[1] > bounds[2]
       THEN {[raised |-> TRUE, value |-> 0]}
       ELSE {[raised |-> FALSE, value |-> n] : n \in bounds[1]..bounds[2]}

\* Repeat ranges: the default, and per-path overrides.
RepeatRanges == { <<1, 3>>, <<2, 5>>, <<0, 0>>, <<4, 2>>, <<18, 30>> }

MinOccursValues == {0, 1, 2, 5, 21}
MaxOccursValues == {None, Some(1), Some(3), Some(25)}

CountPath == <<"Root", "Opt", "Item">>

CountDistributions ==
    { DistributionConfig(70, 5, 3, r, <<>>) : r \in RepeatRanges }
        \cup { DistributionConfig(70, 5, 3, <<1, 3>>,
                   <<FieldOverride(CountPath, None, Some(r))>>) :
               r \in RepeatRanges }

\* One call distribution.get_repeat_count(path, min_occurs, max_occurs) on
\* an element definition (min_occurs <= max_occurs when bounded).
GetRepeatCount(distribution, min_occurs, max_occurs) ==
    /\ gen.pc = "idle"
    /\ IF IsNone(max_occurs) THEN TRUE ELSE min_occurs <= Get(max_occurs)
    /\ \E result \in get_repeat_count(distribution, CountPath, min_occurs,
                                      max_occurs) :
          gen' = [pc |-> "count", distribution |-> distribution,
                  min_occurs |-> min_occurs, max_occurs |-> max_occurs,
                  raised |-> result.raised, value |-> result.value]
    /\ UNCHANGED <<engine, state_lock, queues, workers, callers, calls, last,
                   served, extract, client>>

\* ---------------------------------------------------- generator: schema
\* A path is the sequence of its segments; a text value is a string.
XsdSimpleType(base_type, enumeration) ==
    [base_type |-> base_type, enumeration |-> enumeration]

XsdAttribute(name, type_def, use, default, fixed) ==
    [name |-> name, type_def |-> type_def, use |-> use,
     default |-> default, fixed |-> fixed]

XsdElement(name, min_occurs, max_occurs, nillable, type_def, children, attributes, full_path) ==
    [name |-> name, min_occurs |-> min_occurs, max_occurs |-> max_occurs,
     nillable |-> nillable, type_def |-> type_def, children |-> children,
     attributes |-> attributes, full_path |-> full_path]

is_leaf(element_def) == Len(element_def.children) = 0

is_optional(element_def) == element_def.min_occurs = 0

XSI_NIL == "{http://www.w3.org/2001/XMLSchema-instance}nil"

\* `if value:` on an Optional string.
TruthyText(o) == ~IsNone(o) /\ Get(o) /= ""

\* ---------------------------------------------------- generator: values
\* ValueGeneratorRegistry.generate(semantic_type): what the registered
\* Faker generator can return; an unregistered type gives faker.pystr.
RegistryValues(semantic_type) ==
    CASE semantic_type = "person.first_name" -> {"Alice", "Bob"}
      [] OTHER -> {"pystr"}

\* The base-type generators of XsdTypeValueGenerator.
BaseTypeValues(base_type) ==
    CASE base_type = "boolean" -> {"true", "false"}
      [] base_type = "integer" -> {"7"}
      [] OTHER -> {"lorem"}

\* XsdTypeValueGenerator.generate(type_def), for types without a pattern.
XsdTypeValues(type_def) ==
    IF IsNone(type_def) THEN {"pystr"}
    ELSE IF ~IsNone(Get(type_def).enumeration)
            /\ Len(Get(Get(type_def).enumeration)) > 0
    THEN LET enumeration == Get(Get(type_def).enumeration)
         IN {enumeration[k] : k \in 1..Len(enumeration)}
    ELSE BaseTypeValues(Get(type_def).base_type)

\* ------------------------------------------------- generator: XmlGenerator
XmlGenerator(distribution, semantic_types) ==
    [distribution |-> distribution, semantic_types |-> semantic_types]

\* self.semantic_types.get(path)
SemanticTypeOf(g, path) ==
    LET hits == {k \in 1..Len(g.semantic_types) :
                    g.semantic_types[k].path = path}
    IN IF hits = {} THEN None
       ELSE g.semantic_types[CHOOSE k \in hits : TRUE].type

\* _generate_text_value: the texts it can return.
_generate_text_value(g, element_def) ==
    LET path == element_def.full_path
        type_def == element_def.type_def
        checks_empty ==
            /\ ~IsNone(type_def)
            /\ Get(type_def).base_type = "string"
            /\ IsNone(Get(type_def).enumeration)
        empties == IF checks_empty THEN should_be_empty(g.distribution, path)
                   ELSE {FALSE}
        semantic_type == SemanticTypeOf(g, path)
    IN (IF TRUE \in empties THEN {""} ELSE {})
       \cup (IF FALSE \in empties
             THEN IF TruthyText(semantic_type)
                  THEN RegistryValues(Get(semantic_type))
                  ELSE XsdTypeValues(type_def)
             ELSE {})

\* _generate_attribute_value: the values it can return, None for an
\* attribute left out.
_generate_attribute_value(g, attr_def, parent_path) ==
    LET includes == IF attr_def.use /= "required"
                    THEN should_include_optional(g.distribution,
                             parent_path \o <<"@" , attr_def.name>>)
                    ELSE {TRUE}
        defaults == IF TruthyText(attr_def.default)
                    THEN should_include_optional(g.distribution,
                                                 <<"_use_default">>)
                    ELSE {FALSE}
    IN (IF FALSE \in includes THEN {None} ELSE {})
       \cup (IF TRUE \in includes
             THEN IF TruthyText(attr_def.fixed)
                  THEN {Some(Get(attr_def.fixed))}
                  ELSE (IF TRUE \in defaults
                        THEN {Some(Get(attr_def.default))} ELSE {})
                       \cup (IF FALSE \in defaults
                             THEN {Some(v) : v \in XsdTypeValues(
                                                 Some(attr_def.type_def))}
                             ELSE {})
             ELSE {})

\* ET.Element: tag, attributes, text and children. `definition` records
\* the full_path of the definition the element was generated from.
Element(name, definition, attrib, text, children) ==
    [tag |-> name, definition |-> definition, attrib |-> attrib,
     text |-> text, children |-> children]

_create_nil_element(name, definition) ==
    Element(name, definition, <<[name |-> XSI_NIL, value |-> "true"]>>,
            None, <<>>)

\* What a call returns: an Optional element, or the exception it raised.
Returns(value) == [raised |-> FALSE, value |-> value]
RaisedValueError == [raised |-> TRUE, value |-> None]

\* The attribute loop of _generate_element from attribute k on: the
\* attribute lists it can set.
RECURSIVE AttributeSets(_, _, _)
AttributeSets(g, element_def, k) ==
    IF k > Len(element_def.attributes) THEN {<<>>}
    ELSE LET attr_def == element_def.attributes[k] IN
         { (IF IsNone(v) THEN <<>>
            ELSE <<[name |-> attr_def.name, value |-> Get(v)]>>) \o rest :
           v \in _generate_attribute_value(g, attr_def,
                                           element_def.full_path),
           rest \in AttributeSets(g, element_def, k + 1) }

RECURSIVE _generate_element(_, _)
RECURSIVE RepeatChild(_, _, _)
RECURSIVE GenerateChildren(_, _, _)

\* `for _ in range(count)` on one child definition: the lists of children
\* appended, or the exception.
RepeatChild(g, child_def, count) ==
    IF count = 0 THEN {Returns(<<>>)}
    ELSE UNION {
           IF first.raised THEN {RaisedValueError}
           ELSE { IF rest.raised THEN RaisedValueError
                  ELSE Returns(first.value \o rest.value) :
                  rest \in RepeatChild(g, child_def, count - 1) } :
           first \in _generate_element(g, child_def) }

\* _get_child_count
_get_child_count(g, child_def) ==
    get_repeat_count(g.distribution, child_def.full_path,
                     child_def.min_occurs, child_def.max_occurs)

\* `for child_def in element_def.children` from child definition k on.
GenerateChildren(g, element_def, k) ==
    IF k > Len(element_def.children) THEN {Returns(<<>>)}
    ELSE UNION {
           IF count.raised THEN {RaisedValueError}
           ELSE UNION {
                  IF these.raised THEN {RaisedValueError}
                  ELSE { IF rest.raised THEN RaisedValueError
                         ELSE Returns(these.value \o rest.value) :
                         rest \in GenerateChildren(g, element_def, k + 1) } :
                  these \in RepeatChild(g, element_def.children[k],
                                        count.value) } :
           count \in _get_child_count(g, element_def.children[k]) }

\* `if len(elem) == 0 and element_def.is_optional: return None`
Pruned(element_def, children) ==
    Len(children) = 0 /\ is_optional(element_def)

\* _generate_element: what it can return (None for a skipped element) or
\* raise.
_generate_element(g, element_def) ==
    LET includes == IF is_optional(element_def)
                    THEN should_include_optional(g.distribution,
                                                 element_def.full_path)
                    ELSE {TRUE}
        nulls == IF element_def.nillable
                 THEN should_be_null(g.distribution, element_def.full_path)
                 ELSE {FALSE}
        attribs == AttributeSets(g, element_def, 1)
        built ==
            IF is_leaf(element_def)
            THEN { Returns(Some(Element(element_def.name,
                                         element_def.full_path, attrib,
                                         Some(text), <<>>))) :
                   attrib \in attribs,
                   text \in _generate_text_value(g, element_def) }
            ELSE { IF children.raised THEN RaisedValueError
                   ELSE IF Pruned(element_def, children.value)
                   THEN Returns(None)
                   ELSE Returns(Some(Element(element_def.name,
                                              element_def.full_path, attrib,
                                              None, children.value))) :
                   attrib \in attribs,
                   children \in GenerateChildren(g, element_def, 1) }
    IN (IF FALSE \in includes THEN {Returns(None)} ELSE {})
       \cup (IF TRUE \in includes /\ TRUE \in nulls
             THEN {Returns(Some(_create_nil_element(
                                     element_def.name,
                                     element_def.full_path)))}
             ELSE {})
       \cup (IF TRUE \in includes /\ FALSE \in nulls THEN built ELSE {})

\* ------------------------------------------------- generator: the inputs
XsdSchema(root_elements) == [root_elements |-> root_elements]

\* get_primary_root
get_primary_root(schema) ==
    IF Len(schema.root_elements) > 0 THEN Some(schema.root_elements[1])
    ELSE None

StatusType == XsdSimpleType("string", Some(<<"ACTIVE", "INACTIVE">>))
TextType == XsdSimpleType("string", None)
FlagType == XsdSimpleType("boolean", None)

StatusPath == <<"Root", "Status">>
OptPath == <<"Root", "Opt">>

StatusDef(nillable) ==
    XsdElement("Status", 1, Some(1), nillable, Some(StatusType), <<>>, <<>>,
               StatusPath)
ItemDef(max_occurs) ==
    XsdElement("Item", 0, max_occurs, FALSE, Some(TextType), <<>>, <<>>,
               CountPath)
OptDef(nillable, max_occurs) ==
    XsdElement("Opt", 0, Some(1), nillable, None, <<ItemDef(max_occurs)>>,
               <<>>, OptPath)
RootDef(status_nillable, opt_nillable, max_occurs) ==
    XsdElement("Root", 1, Some(1), FALSE, None,
               <<StatusDef(status_nillable),
                 OptDef(opt_nillable, max_occurs)>>,
               <<XsdAttribute("flag", FlagType, "optional", None, None)>>,
               <<"Root">>)

Schemas ==
    { XsdSchema(<<RootDef(s, o, m)>>) :
        s \in BOOLEAN, o \in BOOLEAN, m \in {Some(1), None} }
        \cup {XsdSchema(<<>>)}

FillRates == {0, 70, 100}
NullRates == {0, 5}
EmptyRates == {0, 3}

GenDistributions ==
    { DistributionConfig(f, n, e, <<1, 2>>, o) :
        f \in FillRates, n \in NullRates, e \in EmptyRates,
        o \in {<<>>, <<FieldOverride(OptPath, Some(100), None)>>} }

\* meta_config.generation.semantic_types: none, a type for the path of the
\* enumerated leaf, a type or null for the path of the string leaf.
SemanticTypes ==
    { <<>>, <<[path |-> StatusPath, type |-> Some("person.first_name")]>>,
      <<[path |-> CountPath, type |-> Some("person.first_name")]>>,
      <<[path |-> CountPath, type |-> None]>> }

Generators ==
    { XmlGenerator(d, t) : d \in GenDistributions, t \in SemanticTypes }

\* XmlGenerator(schema, meta_config, distribution).generate(): ValueError
\* for a schema without root and for a root that was not generated.
Generate(schema, g) ==
    /\ gen.pc = "idle"
    /\ LET root_element == get_primary_root(schema) IN
       \E outcome \in IF IsNone(root_element) THEN {RaisedValueError}
                      ELSE _generate_element(g, Get(root_element)) :
          gen' = [pc |-> "generated", schema |-> schema, generator |-> g,
                  raised |-> outcome.raised \/ IsNone(outcome.value),
                  root |-> outcome.value]
    /\ UNCHANGED <<engine, state_lock, queues, workers, callers, calls, last,
                   served, extract, client>>

\* The caller drops the result; the next call starts afresh.
GenDone ==
    /\ gen.pc \in {"count", "generated"}
    /\ gen' = Idle
    /\ UNCHANGED <<engine, state_lock, queues, workers, callers, calls, last,
                   served, extract, client>>

NextGen ==
    \/ \E distribution \in CountDistributions, min_occurs \in MinOccursValues,
          max_occurs \in MaxOccursValues :
          GetRepeatCount(distribution, min_occurs, max_occurs)
    \/ \E schema \in Schemas, g \in Generators : Generate(schema, g)
    \/ GenDone

SpecGen == Init /\ [][NextGen]_vars

\* ------------------------------------------- generator-side extractor
\* SpecBoth: extract_observations_from_xml of testgen/api/client.py and the
\* engine's _extract_observations_from_string on the same document.
XSI_NAMESPACE == "http://www.w3.org/2001/XMLSchema-instance"

\* The ElementTree name "{XSI_NAMESPACE}local".
XsiName(local) == <<"{", XSI_NAMESPACE, "}", local>>

\* get_local_name of extract_observations_from_xml
get_local_name(tag) ==
    IF Len(tag) > 0 /\ Head(tag) = "{" THEN AfterBrace(tag) ELSE tag

\* `"XMLSchema-instance" in attr_name`: a substring test on the whole
\* name; of the name parts used here, these contain the substring.
ContainsXMLSchemaInstance(attr_name) ==
    \E k \in 1..Len(attr_name) :
        attr_name[k] \in {XSI_NAMESPACE, "XMLSchema-instance"}

\* element.get(name): the value of the attribute, or None.
ElementGet(element, name) ==
    LET hits == {k \in 1..Len(element.attrib) : element.attrib[k].name = name}
    IN IF hits = {} THEN None
       ELSE Some(element.attrib[CHOOSE k \in hits : TRUE].value)

\* field_stats[path] of the defaultdict, created on first access; the
\* dict keeps insertion order.
ClientStats(field_stats, path) ==
    IF \E k \in 1..Len(field_stats) : field_stats[k].path = path
    THEN field_stats
    ELSE Append(field_stats, [path |-> path, count |-> 0,
                              has_null |-> FALSE, has_empty |-> FALSE])

ClientStatIndex(field_stats, path) ==
    CHOOSE k \in 1..Len(field_stats) : field_stats[k].path = path

LeafNilIgnored(element, field_stats, current_path) ==
    LET with == ClientStats(field_stats, current_path)
        k == ClientStatIndex(with, current_path)
        text == element.text
    IN [with EXCEPT ![k] =
          [@ EXCEPT !.count = @ + 1,
                    !.has_empty = IF IsNone(text) THEN TRUE
                                  ELSE IF Len(Strip(Get(text))) = 0 THEN TRUE
                                  ELSE @]]

\* process_element, `if not has_children:` - the leaf is counted and its
\* text classified.
LeafSighting(element, field_stats, current_path) ==
    LET with == ClientStats(field_stats, current_path)
        k == ClientStatIndex(with, current_path)
        text == element.text
        nil_attr == ElementGet(element, XsiName("nil"))
        is_nil == IsNone(text) /\ nil_attr = Some(<<"true">>)
    IN [with EXCEPT ![k] =
          [@ EXCEPT !.count = @ + 1,
                    !.has_null = IF is_nil THEN TRUE ELSE @,
                    !.has_empty =
                        IF IsNone(text) THEN (IF is_nil THEN @ ELSE TRUE)
                        ELSE IF Len(Strip(Get(text))) = 0 THEN TRUE
                        ELSE @]]

\* process_element, the loop over element.attrib.items() from item k on.
RECURSIVE ClientAttributeLoop(_, _, _, _)
ClientAttributeLoop(attrib, k, field_stats, current_path) ==
    IF k > Len(attrib) THEN field_stats
    ELSE IF ContainsXMLSchemaInstance(attrib[k].name)
    THEN ClientAttributeLoop(attrib, k + 1, field_stats, current_path)
    ELSE LET attr_path == current_path \o <<"/@">>
                              \o get_local_name(attrib[k].name)
             with == ClientStats(field_stats, attr_path)
             i == ClientStatIndex(with, attr_path)
             empty == Len(attrib[k].value) = 0
                          \/ Len(Strip(attrib[k].value)) = 0
         IN ClientAttributeLoop(attrib, k + 1,
                [with EXCEPT ![i] =
                    [@ EXCEPT !.count = @ + 1,
                              !.has_empty = IF empty THEN TRUE ELSE @]],
                current_path)

RECURSIVE process_element(_, _, _)
RECURSIVE ClientChildLoop(_, _, _, _)

process_element(element, field_stats, parent_path) ==
    LET element_name == get_local_name(element.tag)
        current_path == parent_path \o <<"/">> \o element_name
        has_children == Len(element.children) > 0
        s1 == IF ~has_children
              THEN LeafSighting(element, field_stats, current_path)
              ELSE field_stats
        s2 == ClientAttributeLoop(element.attrib, 1, s1, current_path)
    IN ClientChildLoop(element.children, 1, s2, current_path)

ClientChildLoop(children, k, field_stats, current_path) ==
    IF k > Len(children) THEN field_stats
    ELSE ClientChildLoop(children, k + 1,
            process_element(children[k], field_stats, current_path),
            current_path)

\* extract_observations_from_xml(xml_content, metadata): [] for a
\* ParseError, else one dict per path in insertion order.
extract_observations_from_xml(xml_content, metadata) ==
    IF IsNone(FromString(xml_content)) THEN <<>>
    ELSE LET field_stats == process_element(Get(FromString(xml_content)),
                                            <<>>, <<>>)
         IN [k \in 1..Len(field_stats) |->
                [metadata |-> metadata,
                 fieldPath |-> field_stats[k].path,
                 count |-> field_stats[k].count,
                 hasNull |-> field_stats[k].has_null,
                 hasEmpty |-> field_stats[k].has_empty]]

\* Documents with and without attributes of the XML-Schema-instance
\* namespace: a root holding one or two leaves, or a container of a leaf.
BothTexts == { None, Some(<<" ">>), Some(<<"v">>) }
BothAttribs ==
    { <<>>,
      <<[name |-> XsiName("nil"), value |-> <<"true">>]>>,
      <<[name |-> XsiName("nil"), value |-> <<"false">>]>>,
      <<[name |-> XsiName("type"), value |-> <<"T">>]>>,
      <<[name |-> <<"a">>, value |-> <<"x">>]>>,
      <<[name |-> XsiName("nil"), value |-> <<"true">>],
        [name |-> <<"{", "u", "}", "a">>, value |-> <<>>]>>,
      <<[name |-> <<"XMLSchema-instance">>, value |-> <<"x">>]>> }
BothLeaves ==
    { Elem(t, x, a, <<>>) :
        t \in { <<"A">>, <<"{", "u", "}", "A">> }, x \in BothTexts,
        a \in BothAttribs }
BothSecond ==
    { Elem(<<"A">>, None, <<>>, <<>>),
      Elem(<<"A">>, None,
           <<[name |-> XsiName("nil"), value |-> <<"true">>]>>, <<>>),
      Elem(<<"B">>, Some(<<"v">>), <<>>, <<>>) }
BothDocuments ==
    { Elem(<<"R">>, Some(<<"\n">>), <<>>, <<l>>) : l \in BothLeaves }
        \cup { Elem(<<"R">>, None, <<>>, <<l, m>>) :
                l \in BothLeaves, m \in BothSecond }
        \cup { Elem(<<"R">>, None,
                    <<[name |-> XsiName("type"), value |-> <<"T">>]>>,
                    <<Elem(<<"B">>, None, a, <<l>>)>>) :
                a \in BothAttribs, l \in BothSecond }

BothMetadata == { <<>>, MetaKV }

\* The same XML text and metadata given to both extractors; the engine's
\* records as their to_dict() form.
ExtractBoth(doc, metadata) ==
    /\ extract.pc = "idle"
    /\ LET sdk == _extract_observations_from_string(Some(XmlText(doc)),
                                                    Some(metadata))
       IN extract' =
            [pc |-> "both", doc |-> doc, metadata |-> metadata,
             sdk |-> [k \in 1..Len(sdk) |->
                        [metadata |-> sdk[k].metadata,
                         fieldPath |-> sdk[k].field_path,
                         count |-> sdk[k].count,
                         hasNull |-> sdk[k].has_null,
                         hasEmpty |-> sdk[k].has_empty]],
             testgen |-> extract_observations_from_xml(XmlText(doc),
                                                       metadata)]
    /\ UNCHANGED <<engine, state_lock, queues, workers, callers, calls, last,
                   served, client, gen>>

\* The results are dropped.
ForgetBoth ==
    /\ extract.pc = "both"
    /\ extract' = Idle
    /\ UNCHANGED <<engine, state_lock, queues, workers, callers, calls, last,
                   served, client, gen>>

NextBoth ==
    \/ \E doc \in BothDocuments, metadata \in BothMetadata :
          ExtractBoth(doc, metadata)
    \/ ForgetBoth

SpecBoth == Init /\ [][NextBoth]_vars

\* ================================================================ claims
Ceil(n, b) == (n + b - 1) \div b

\* A string that is empty after trimming.
IsBlank(s) == \A k \in 1..Len(s) : s[k] \in Whitespace

IntakeReturn == last.kind = "return" /\ last.op = "submit"

\* The work items the engine holds: in a queue, with a worker, with a caller.
HeldItems ==
    {queues[k].items[j] :
        <<k, j>> \in {<<k, j>> \in (1..Len(queues)) \X (1..(MaxSubmit + 1)) :
                        j <= Len(queues[k].items)}}
      \cup {Get(workers[w].work_item) :
              w \in {w \in Workers : ~IsNone(workers[w].work_item)}}
      \cup {Get(callers[t].work_item) :
              t \in {t \in Threads : ~IsNone(callers[t].work_item)}}

Ids(s) == [k \in 1..Len(s) |-> s[k].id]

\* C1: an intake call never lets an exception reach its caller: whatever the
\* input and whatever the engine's state (uninitialized, running, being
\* reset under it, callback raising), the call returns normally.
C1_IntakeNeverRaises == IntakeReturn => last.ret = "normal"

\* C1's case: the queue was taken away under an intake call (reset), the
\* AttributeError went to a callback that itself raises, and the call
\* returned.
C1_Witness ==
    /\ IntakeReturn
    /\ last.outcome = "error"
    /\ last.cb = 1
    /\ global_error_handler = "cb_raise"

\* C2: a queue built with a capacity >= 1 never holds more items than its
\* capacity; an intake call that finds it full returns at once (the put
\* never waits), leaves the queue as it is, so that the new item is the one
\* lost, and does not invoke the error callback.
C2_BoundedQueueDropsNewest ==
    /\ [](\A k \in 1..Len(queues) :
            queues[k].maxsize >= 1 =>
                Len(queues[k].items) <= queues[k].maxsize)
    /\ [](\A t \in Threads :
            callers[t].pc = "enqueue_put" => ENABLED EnqueuePut(t))
    /\ [][\A t \in Threads :
            (/\ callers[t].pc = "enqueue_put"
             /\ callers'[t].pc = "idle"
             /\ queue # 0
             /\ QueueFull(queues[queue]))
            => /\ queues' = queues
               /\ last'.kind = "return"
               /\ last'.outcome = "dropped"
               /\ last'.ret = "normal"
               /\ last'.cb = 0]_vars

\* C2's case: an intake call found the queue full and returned.
C2_Witness ==
    /\ IntakeReturn
    /\ last.outcome = "dropped"
    /\ queue # 0
    /\ Len(queues[queue].items) = queues[queue].maxsize

\* C3: initialize takes effect once: as long as nobody resets, all calls
\* together, concurrent ones included, build one queue and start one worker
\* thread.
C3_InitializeOnce ==
    calls.reset = 0 => (Len(queues) <= 1 /\ Len(workers) <= 1)

\* C4: an intake call made while the engine is not initialized, or after
\* shutdown() was called, returns silently and enqueues nothing.
C4_NoIntakeWhenDown ==
    (IntakeReturn /\ (last.outcome = "not_initialized" \/ last.after_shutdown))
        => (last.outcome # "accepted" /\ last.cb = 0 /\ last.ret = "normal")

\* C5: shutdown(timeout) returns a boolean to its caller (true when the
\* worker has drained and stopped within the timeout), it does not raise.
C5_ShutdownReturns ==
    (last.kind = "return" /\ last.op = "shutdown")
        => (last.ret = "normal" /\ last.outcome \in {"true", "false"})

\* C6: work items are served first in, first out: the items POSTed are, in
\* order, the first items the queue accepted, the items still queued are the
\* last ones it accepted, in order; and the queue accepted the items of one
\* producer in the order of that producer's calls.
C6_FifoDelivery ==
    \A k \in 1..Len(queues) :
        LET arr == queues[k].arrivals
            got == SelectSeq(served,
                             LAMBDA id : \E j \in 1..Len(arr) : arr[j].id = id)
            taken == Len(arr) - Len(queues[k].items)
        IN /\ Len(got) <= taken
           /\ got = SubSeq(Ids(arr), 1, Len(got))
           /\ Ids(queues[k].items) = SubSeq(Ids(arr), taken + 1, Len(arr))
           /\ \A i, j \in 1..Len(arr) :
                (i < j /\ arr[i].producer = arr[j].producer)
                    => arr[i].id < arr[j].id

\* C6's case: a queue accepted two work items of one producer, and both
\* have been POSTed.
C6_Witness ==
    /\ Len(served) = 2
    /\ queue # 0
    /\ Len(queues[queue].arrivals) = 2
    /\ queues[queue].arrivals[1].producer = queues[queue].arrivals[2].producer
    /\ last.kind = "post"

\* C7: the n observations of a work item leave in ceil(n / b) POSTs, b the
\* configured batch size or 500 when the configured value is not positive:
\* each POST carries the next contiguous slice of at most b observations,
\* every POST but the last carries exactly b, the POSTs of a work item go
\* one at a time and in order, and no observation is lost or repeated.
C7_Batching ==
    /\ \A w \in Workers :
          LET wk == workers[w] IN
          wk.pc \in {"batch", "send", "posting", "task_done"} =>
              LET obs == Get(wk.work_item).observations IN
              /\ wk.sent = SubSeq(obs, 1, Len(wk.sent))
              /\ wk.nposts = Ceil(Len(wk.sent), batch_size)
              /\ wk.pc \in {"batch", "send"} =>
                    (/\ Len(wk.sent) = batch_size * wk.nposts
                     /\ Len(wk.sent) < Len(obs))
              /\ wk.pc = "task_done" =>
                    (/\ wk.sent = obs
                     /\ wk.nposts = Ceil(Len(obs), batch_size))
    /\ last.kind = "post" =>
          LET wk == workers[last.worker]
              obs == Get(wk.work_item).observations
          IN /\ last.start = batch_size * (wk.nposts - 1)
             /\ last.json = SubSeq(obs, last.start + 1,
                                   Min(last.start + batch_size, Len(obs)))
             /\ Len(last.json) >= 1
    /\ Cardinality({w \in Workers : workers[w].pc = "posting"}) <= 1
    /\ (last.kind = "return" /\ last.op = "initialize"
          /\ last.outcome = "initialized") =>
          batch_size = IF Get(last.args).batch_size > 0
                       THEN Get(last.args).batch_size
                       ELSE DEFAULT_BATCH_SIZE

\* C7's case: a work item of 3 observations has left in 2 POSTs (b = 2).
C7_Witness ==
    \E w \in Workers :
        /\ workers[w].pc = "task_done"
        /\ Len(Get(workers[w].work_item).observations) = 3
        /\ workers[w].nposts = 2
        /\ batch_size = 2

\* A POST that did not come back as a response with a status under 400.
PostFailed(outcome) ==
    outcome.kind # "response" \/ outcome.status_code >= 400

C9_TransportClassification ==
    last.kind = "response" =>
        LET o == last.outcome
            r == last.routed
        IN CASE o.kind = "response"
                    /\ 200 <= o.status_code /\ o.status_code <= 299 ->
                    r = <<>>
             [] o.kind = "response"
                    /\ ~(200 <= o.status_code /\ o.status_code <= 299) ->
                    /\ Len(r) = 1
                    /\ r[1].type = "CatalogApiException"
                    /\ r[1].status_code = Some(o.status_code)
                    /\ r[1].response_content = Some(o.text)
             [] o.kind = "Timeout" ->
                    /\ Len(r) = 1
                    /\ r[1].type = "CatalogApiException"
                    /\ r[1].message = <<"Request timed out">>
             [] o.kind = "RequestException" ->
                    /\ Len(r) = 1
                    /\ r[1].type = "CatalogApiException"
                    /\ r[1].message = <<"Network error">>
                    /\ r[1].cause = Some("RequestException")
             [] OTHER -> TRUE

\* A submission that cannot give a work item: context id missing, empty
\* or whitespace only; XML missing, empty or malformed; element missing.
IsSoft(in) ==
    \/ IsNone(in.context_id)
    \/ IsBlank(Get(in.context_id))
    \/ IsNone(in.xml)
    \/ (in.entry \in {"bytes", "string"}
          /\ Get(in.xml).kind \in {"empty", "malformed"})

\* C10: an intake call with a blank context id or with XML that gives no
\* observation returns normally, changes neither the queue nor the engine,
\* and does not invoke the error callback; so every work item the engine
\* holds has a non-blank context id and at least one observation.
C10_SoftFailures ==
    /\ [](\A item \in HeldItems :
            ~IsBlank(item.context_id) /\ Len(item.observations) > 0)
    /\ [][(/\ last'.kind = "return"
           /\ last'.op = "submit"
           /\ ~IsNone(last'.input)
           /\ IsSoft(Get(last'.input)))
          => /\ last'.outcome \in {"soft_context", "soft_empty"}
             /\ last'.ret = "normal"
             /\ last'.cb = 0
             /\ queues' = queues
             /\ workers' = workers
             /\ engine' = engine]_vars

\* C10's case: an initialized engine refused a whitespace-only context id.
C10_Witness ==
    /\ IntakeReturn
    /\ initialized
    /\ last.outcome = "soft_context"
    /\ ~IsNone(Get(last.input).context_id)
    /\ Len(Get(Get(last.input).context_id)) > 0

\* The reference walk of a document: the sightings of field paths in
\* document order - every element without child elements at its path, and
\* every attribute of every element at the element's path plus /@name, names
\* taken without their namespace; blank tells whether the text or value is
\* absent or whitespace only.
RefLocalName(name) ==
    IF Len(name) > 0 /\ name[1] = "{"
    THEN LET close == CHOOSE i \in 1..Len(name) :
                        /\ name[i] = "}"
                        /\ \A j \in 1..(i - 1) : name[j] # "}"
         IN SubSeq(name, close + 1, Len(name))
    ELSE name

RECURSIVE RefSightings(_, _)
RECURSIVE RefChildSightings(_, _, _)

RefSightings(element, parent_path) ==
    LET path == parent_path \o <<"/">> \o RefLocalName(element.tag)
        own == IF Len(element.children) = 0
               THEN <<[path |-> path,
                       blank |-> IsNone(element.text)
                                    \/ IsBlank(Get(element.text))]>>
               ELSE <<>>
        attributes ==
            [k \in 1..Len(element.attrib) |->
                [path |-> path \o <<"/@">>
                              \o RefLocalName(element.attrib[k].name),
                 blank |-> IsBlank(element.attrib[k].value)]]
    IN own \o attributes \o RefChildSightings(element.children, 1, path)

RefChildSightings(children, k, path) ==
    IF k > Len(children) THEN <<>>
    ELSE RefSightings(children[k], path)
            \o RefChildSightings(children, k + 1, path)

SightingsAt(sightings, path) ==
    {j \in 1..Len(sightings) : sightings[j].path = path}

\* C11: for a well-formed document the extractor returns one record per
\* distinct field path; the field paths are exactly those of the reference
\* walk (leaf elements and attributes, no namespaces, no path of an element
\* that only ever has child elements), and a record's count is the number
\* of sightings of its path.
C11_ExtractorMatchesWalk ==
    extract.pc = "extracted" =>
        LET records == extract.records
            sightings == RefSightings(extract.doc, <<>>)
        IN /\ \A i, j \in 1..Len(records) :
                i # j => records[i].field_path # records[j].field_path
           /\ {records[k].field_path : k \in 1..Len(records)}
                = {sightings[j].path : j \in 1..Len(sightings)}
           /\ \A k \in 1..Len(records) :
                records[k].count
                    = Cardinality(SightingsAt(sightings,
                                              records[k].field_path))

\* C11's case: a document with a container child and two sibling leaves
\* that differ only in their namespace gives one record with count 2.
C11_Witness ==
    /\ extract.pc = "extracted"
    /\ Len(extract.doc.children) = 2
    /\ extract.doc.children[1].tag = <<"A">>
    /\ extract.doc.children[2].tag = <<"{", "u", "}", "A">>
    /\ \E k \in 1..Len(extract.records) :
          /\ extract.records[k].field_path = <<"/", "R", "/", "A">>
          /\ extract.records[k].count = 2

UpdatesAt(updates, path) ==
    {j \in 1..Len(updates) : updates[j].field_path = path}

\* C12: every record has count >= 1; hasEmpty holds exactly when a sighting
\* of its path had an absent or whitespace-only text or value, hasNull
\* exactly when a null value was counted; and after every update of the
\* statistics, null count + empty count <= total occurrences.
C12_CountsAndFlags ==
    /\ extract.pc = "stats" =>
          \A k \in 1..Len(extract.field_stats) :
              LET stats == extract.field_stats[k]
                  record == _convert_statistics_to_observations(
                                extract.field_stats)[k]
                  mine == UpdatesAt(extract.updates, stats.field_path)
              IN /\ stats.null_value_count + stats.empty_value_count
                        <= stats.total_occurrences
                 /\ record.field_path = stats.field_path
                 /\ record.count = Cardinality(mine)
                 /\ record.count >= 1
                 /\ record.has_null
                        <=> \E j \in mine : IsNone(extract.updates[j].value)
                 /\ record.has_empty
                        <=> \E j \in mine :
                               /\ ~IsNone(extract.updates[j].value)
                               /\ IsBlank(Get(extract.updates[j].value))
    /\ extract.pc = "extracted" =>
          LET sightings == RefSightings(extract.doc, <<>>) IN
          \A k \in 1..Len(extract.records) :
              LET record == extract.records[k] IN
              /\ record.count >= 1
              /\ ~record.has_null
              /\ record.has_empty
                    <=> \E j \in SightingsAt(sightings, record.field_path) :
                           sightings[j].blank

\* C12's case: a path updated three times, once with a null value and once
\* with a whitespace-only one.
C12_Witness ==
    /\ extract.pc = "stats"
    /\ \E k \in 1..Len(extract.field_stats) :
          /\ extract.field_stats[k].total_occurrences = 3
          /\ extract.field_stats[k].null_value_count = 1
          /\ extract.field_stats[k].empty_value_count = 1
          /\ \E j \in 1..Len(extract.updates) :
                extract.updates[j].value = Some(<<" ">>)

\* C13: every record of a submission carries the metadata that was passed
\* with it, by value and as it was when the call was made (the empty mapping
\* for None); a caller changing its mapping after the call returned changes
\* neither the records nor the payload serialized from them later.
C13_MetadataCaptured ==
    LET submitted == IF IsNone(extract.passed) THEN <<>>
                     ELSE Get(extract.passed)
    IN /\ extract.pc = "extracted" =>
             \A k \in 1..Len(extract.records) :
                 extract.records[k].metadata.items = submitted
       /\ extract.pc = "serialized" =>
             \A k \in 1..Len(extract.json_data) :
                 extract.json_data[k].metadata = submitted

\* C13's case: the caller replaced the value of its key after the call, and
\* the payload was serialized afterwards.
C13_Witness ==
    /\ extract.pc = "serialized"
    /\ extract.passed = Some(MetaKV)
    /\ Get(extract.mapping).items = MetaOther
    /\ Len(extract.json_data) > 0

\* The records of the reference walk: one per path in the order of the first
\* sighting, with the number of sightings and whether one of them was blank.
RECURSIVE RefRecords(_, _)
RefRecords(sightings, metadata) ==
    IF Len(sightings) = 0 THEN <<>>
    ELSE LET n == Len(sightings)
             before == RefRecords(SubSeq(sightings, 1, n - 1), metadata)
             hits == {k \in 1..Len(before) :
                        before[k].field_path = sightings[n].path}
         IN IF hits = {}
            THEN Append(before,
                    [metadata |-> metadata, field_path |-> sightings[n].path,
                     count |-> 1, has_null |-> FALSE,
                     has_empty |-> sightings[n].blank])
            ELSE [k \in 1..Len(before) |->
                    IF k \in hits
                    THEN [before[k] EXCEPT
                            !.count = @ + 1,
                            !.has_empty = @ \/ sightings[n].blank]
                    ELSE before[k]]

\* The document a submission carries, whatever the entry point.
DocumentOf(in) ==
    IF in.entry = "element" THEN Get(in.xml) ELSE Get(Get(in.xml).root)

\* C14: the payload is a function of the document, the context id and the
\* metadata alone: a work item accepted by the queue holds the context id
\* and the records of the reference walk of the document, whatever the
\* entry point and whatever other producers do; a work item never changes
\* while the engine holds it; and each POST goes to the URL made of the base
\* URL and the item's context id, with records of that item as its JSON.
\* Two equal submissions therefore give equal POSTs to one URL.
C14_DeterministicPayload ==
    /\ [](IntakeReturn /\ last.outcome = "accepted" =>
            LET in == Get(last.input)
                items == queues[queue].items
                item == items[Len(items)]
            IN /\ item.id = last.id
               /\ item.context_id = Get(in.context_id)
               /\ item.observations
                    = RefRecords(RefSightings(DocumentOf(in), <<>>),
                                 IF IsNone(in.metadata) THEN <<>>
                                 ELSE Get(in.metadata)))
    /\ [](last.kind = "post" =>
            LET item == Get(workers[last.worker].work_item)
            IN /\ last.url = base_url \o <<"/catalog/contexts/">>
                                \o item.context_id \o <<"/observations">>
               /\ last.id = item.id
               /\ last.json = SubSeq(item.observations, last.start + 1,
                                     last.start + Len(last.json)))
    /\ [][\A i \in HeldItems : \A j \in HeldItems' :
             i.id = j.id => i = j]_vars

\* C14's case: the queue holds two work items of different producers with
\* the same context id and equal records, the later one submitted as a
\* string.
C14_Witness ==
    /\ IntakeReturn
    /\ last.outcome = "accepted"
    /\ Get(last.input).entry = "string"
    /\ Len(queues[queue].items) = 2
    /\ queues[queue].items[1].observations = queues[queue].items[2].observations
    /\ queues[queue].items[1].context_id = queues[queue].items[2].context_id
    /\ queues[queue].items[1].producer # queues[queue].items[2].producer

\* An outcome after which submit_observations may try again: a 5xx
\* response, a timeout, a network failure.
Retryable(outcome) ==
    \/ outcome.kind \in {"Timeout", "RequestException"}
    \/ outcome.kind = "response"
          /\ 500 <= outcome.status_code /\ outcome.status_code <= 599

HttpOrNetwork(outcome) ==
    outcome.kind \in {"response", "Timeout", "RequestException"}

SubmitCall == client.pc # "idle" /\ client.op = "submit" /\ client.n > 0

\* C15: submit_observations with records makes at most max_retries POSTs;
\* every attempt before the last one ended in a 5xx response, a timeout or
\* a network failure (so the first success and the first 4xx end the call);
\* after such an attempt k (0-based) with k < max_retries - 1 it sleeps
\* retry_delay * (k + 1) and POSTs again; after the last failed attempt it
\* returns a failure without sleeping and without raising.
C15_RetryPolicy ==
    SubmitCall =>
        /\ client.posts <= client.max_retries
        /\ Len(client.outcomes) <= client.posts
        /\ \A k \in 1..(Len(client.outcomes) - 1) :
              Retryable(client.outcomes[k])
        /\ \A k \in 1..Len(client.slept) :
              client.slept[k] = client.retry_delay * k
        /\ client.pc \in {"attempt", "posting"} =>
              Len(client.slept) = client.attempt
        /\ client.pc = "posting" => client.posts = client.attempt + 1
        /\ client.pc = "attempt" =>
              (/\ client.posts = client.attempt
               /\ client.attempt > 0 => client.attempt < client.max_retries)
        /\ (client.pc = "returned" /\ client.posts > 0) =>
              LET final == client.outcomes[client.posts] IN
              /\ Len(client.slept) = client.posts - 1
              /\ Retryable(final) =>
                    (/\ client.posts = client.max_retries
                     /\ client.ret = "normal"
                     /\ ~Get(client.result).success)

\* C15's case: three attempts failed with 5xx, timeout or network failure;
\* the call slept retry_delay and 2 * retry_delay and returned a failure.
C15_Witness ==
    /\ SubmitCall
    /\ client.pc = "returned"
    /\ client.max_retries = 3
    /\ client.posts = 3
    /\ client.retry_delay = 2
    /\ client.slept = <<2, 4>>
    /\ client.outcomes[3].kind = "Timeout"
    /\ ~Get(client.result).success

\* C16: submit_observations never raises for an HTTP or network outcome;
\* its result has success = TRUE exactly when the decisive response has a
\* status in 200..299, then with observation_count = number of records and
\* no error message; otherwise success = FALSE, observation_count = 0 and
\* an error message.
C16_SubmissionResult ==
    (SubmitCall /\ client.pc = "returned" /\ client.posts > 0
        /\ HttpOrNetwork(client.outcomes[client.posts])) =>
        LET final == client.outcomes[client.posts]
            result == Get(client.result)
        IN /\ client.ret = "normal"
           /\ result.success
                <=> (final.kind = "response" /\ 200 <= final.status_code
                        /\ final.status_code <= 299)
           /\ result.success =>
                (result.observation_count = client.n
                    /\ IsNone(result.error_message))
           /\ ~result.success =>
                (result.observation_count = 0
                    /\ ~IsNone(result.error_message))

CreateCall == client.pc = "returned" /\ client.op \in {"create", "ensure"}

\* C17: create_context returns True exactly when the server answers 201 or
\* 409 and raises for every other status and every network failure;
\* ensure_context_exists sends the creating POST only when its existence
\* GET did not return 200, so once the context exists and the GET says so
\* it sends no POST and returns True.
C17_ContextCreation ==
    /\ (CreateCall /\ client.posts > 0) =>
          LET answer == client.outcomes[1] IN
          IF answer.kind = "response" /\ answer.status_code \in {201, 409}
          THEN client.ret = "normal" /\ client.result = Some(TRUE)
          ELSE client.ret = "raised"
    /\ (client.pc # "idle" /\ client.op = "ensure"
          /\ client.pc # "checking") =>
          LET got200 == Get(client.get).kind = "response"
                            /\ Get(client.get).status_code = 200
          IN /\ client.posts > 0 <=> ~got200
             /\ got200 => (/\ client.pc = "returned"
                           /\ client.ret = "normal"
                           /\ client.result = Some(TRUE))

\* C17's case: a second ensure_context_exists, on a context the first call
\* has created, returned True without a POST.
C17_Witness ==
    /\ CreateCall
    /\ client.op = "ensure"
    /\ client.calls = 2
    /\ client.exists
    /\ client.posts = 0
    /\ client.result = Some(TRUE)


\* The interval the count is specified to lie in: effectiveMin and
\* effectiveMax, both clamped to 20, and the maximum raised to the minimum.
SpecifiedRepeatBounds(distribution, field_path, min_occurs, max_occurs) ==
    LET range == _get_field_repeat_range(distribution, field_path)
        low == Min(20, IF IsNone(max_occurs) THEN Max(min_occurs, range[1])
                       ELSE Max(min_occurs, 1))
        high == Min(20, IF IsNone(max_occurs) THEN range[2]
                        ELSE Min(Get(max_occurs), range[2]))
    IN <<low, Max(low, high)>>

\* C18: get_repeat_count never raises, and the integer it returns lies
\* between effectiveMin and effectiveMax, which satisfy
\* 0 <= effectiveMin <= effectiveMax <= 20; it is at most maxOccurs when
\* maxOccurs is bounded.
C18_RepeatCountInBounds ==
    gen.pc = "count" =>
        LET bounds == SpecifiedRepeatBounds(gen.distribution, CountPath,
                                            gen.min_occurs, gen.max_occurs)
        IN /\ ~gen.raised
           /\ 0 <= bounds[1] /\ bounds[1] <= bounds[2] /\ bounds[2] <= 20
           /\ bounds[1] <= gen.value /\ gen.value <= bounds[2]
           /\ ~IsNone(gen.max_occurs) => gen.value <= Get(gen.max_occurs)

\* Where get_repeat_count does return, the count lies in the interval.
ReturnedCountInBounds ==
    (gen.pc = "count" /\ ~gen.raised) =>
        LET bounds == SpecifiedRepeatBounds(gen.distribution, CountPath,
                                            gen.min_occurs, gen.max_occurs)
        IN bounds[1] <= gen.value /\ gen.value <= bounds[2]


\* Every element of a generated tree, and every definition of a schema tree.
RECURSIVE ElementsOf(_)
ElementsOf(element) ==
    {element} \cup UNION { ElementsOf(element.children[k]) :
                           k \in 1..Len(element.children) }

RECURSIVE DefinitionsOf(_)
DefinitionsOf(element_def) ==
    {element_def} \cup UNION { DefinitionsOf(element_def.children[k]) :
                               k \in 1..Len(element_def.children) }

\* The definition an emitted element of the current document came from.
DefinitionOf(element) ==
    CHOOSE d \in DefinitionsOf(gen.schema.root_elements[1]) :
        d.full_path = element.definition

IsNil(element) ==
    \E k \in 1..Len(element.attrib) : element.attrib[k].name = XSI_NIL

Enumerated(element_def) ==
    /\ ~IsNone(element_def.type_def)
    /\ ~IsNone(Get(element_def.type_def).enumeration)

EnumerationOf(element_def) ==
    LET enumeration == Get(Get(element_def.type_def).enumeration)
    IN {enumeration[k] : k \in 1..Len(enumeration)}

Emitted ==
    IF gen.pc = "generated" /\ ~IsNone(gen.root)
    THEN ElementsOf(Get(gen.root)) ELSE {}

\* C19: in a generated document, the text of every emitted non-nil leaf
\* element whose simple type declares an enumeration is a member of that
\* enumeration and is not the empty string, whatever the distribution and
\* the semantic types of the meta configuration.
C19_EnumeratedText ==
    \A element \in Emitted :
        LET element_def == DefinitionOf(element) IN
        (is_leaf(element_def) /\ Enumerated(element_def) /\ ~IsNil(element))
            => /\ Get(element.text) \in EnumerationOf(element_def)
               /\ Get(element.text) /= ""

\* The same with no semantic type bound to the path of the element.
EnumeratedTextWithoutSemanticType ==
    \A element \in Emitted :
        LET element_def == DefinitionOf(element) IN
        (/\ is_leaf(element_def) /\ Enumerated(element_def)
         /\ ~IsNil(element)
         /\ ~TruthyText(SemanticTypeOf(gen.generator, element.definition)))
            => /\ Get(element.text) \in EnumerationOf(element_def)
               /\ Get(element.text) /= ""

\* C20: in a generated document, every emitted element whose definition is
\* optional and has child definitions contains at least one child element.
C20_OptionalPruning ==
    \A element \in Emitted :
        LET element_def == DefinitionOf(element) IN
        (~is_leaf(element_def) /\ is_optional(element_def))
            => Len(element.children) >= 1

\* The same for the elements that are not nil.
OptionalPruningUnlessNil ==
    \A element \in Emitted :
        LET element_def == DefinitionOf(element) IN
        (~is_leaf(element_def) /\ is_optional(element_def) /\ ~IsNil(element))
            => Len(element.children) >= 1


\* The optional definitions of the schema of the current document.
OptionalDefinitions ==
    IF gen.pc = "generated" /\ Len(gen.schema.root_elements) > 0
    THEN {d \in DefinitionsOf(gen.schema.root_elements[1]) : is_optional(d)}
    ELSE {}

EmittedAt(path) == {element \in Emitted : element.definition = path}

ParentPath(path) == SubSeq(path, 1, Len(path) - 1)

HasChildAt(element, path) ==
    \E k \in 1..Len(element.children) :
        element.children[k].definition = path

\* C21: an optional element whose effective fill rate is 0.0 is in no
\* generated document; one whose effective fill rate is 1.0 is in every
\* generated document under each emitted parent element.
C21_FillRateBoundaries ==
    \A d \in OptionalDefinitions :
        LET rate == _get_field_fill_rate(gen.generator.distribution,
                                         d.full_path)
        IN /\ rate = 0 => EmittedAt(d.full_path) = {}
           /\ rate = 100 =>
                 \A parent \in EmittedAt(ParentPath(d.full_path)) :
                     HasChildAt(parent, d.full_path)

\* The half that holds: a fill rate of 0.0 keeps the element out.
FillRateZeroAbsent ==
    \A d \in OptionalDefinitions :
        _get_field_fill_rate(gen.generator.distribution, d.full_path) = 0
            => EmittedAt(d.full_path) = {}

\* A fill rate of 1.0 puts a leaf under every parent that is not nil.
FillRateOneLeafPresent ==
    \A d \in OptionalDefinitions :
        (/\ is_leaf(d)
         /\ _get_field_fill_rate(gen.generator.distribution,
                                 d.full_path) = 100)
            => \A parent \in EmittedAt(ParentPath(d.full_path)) :
                   ~IsNil(parent) => HasChildAt(parent, d.full_path)


\* The attributes of a document, each with the path of its element and
\* whether its name lies in the XML-Schema-instance namespace.
RECURSIVE RefAttributes(_, _)
RefAttributes(element, parent_path) ==
    LET path == parent_path \o <<"/">> \o RefLocalName(element.tag)
    IN { [path |-> path \o <<"/@">> \o RefLocalName(element.attrib[k].name),
          xsi |-> /\ Len(element.attrib[k].name) > 3
                  /\ element.attrib[k].name[1] = "{"
                  /\ element.attrib[k].name[2] = XSI_NAMESPACE] :
         k \in 1..Len(element.attrib) }
       \cup UNION { RefAttributes(element.children[k], path) :
                    k \in 1..Len(element.children) }

PathsOf(records) == { records[k].fieldPath : k \in 1..Len(records) }

BothAttributes ==
    IF extract.pc = "both" THEN RefAttributes(extract.doc, <<>>) ELSE {}

\* C25: neither extractor produces a record for an attribute of the
\* XML-Schema-instance namespace, and both produce the record P/@localName
\* for every other attribute.
C25_XsiAttributesIgnored ==
    \A a \in BothAttributes :
        IF a.xsi
        THEN /\ a.path \notin PathsOf(extract.sdk)
             /\ a.path \notin PathsOf(extract.testgen)
        ELSE /\ a.path \in PathsOf(extract.sdk)
             /\ a.path \in PathsOf(extract.testgen)

\* What the client's extractor does: no record for an attribute of the
\* XML-Schema-instance namespace.
ClientIgnoresXsi ==
    \A a \in BothAttributes :
        a.xsi => a.path \notin PathsOf(extract.testgen)

\* What the engine's extractor does: a record for every attribute.
EngineRecordsEveryAttribute ==
    \A a \in BothAttributes : a.path \in PathsOf(extract.sdk)


\* The leaves of a document: the path of each, its text, and whether it
\* carries xsi:nil="true".
RECURSIVE RefLeaves(_, _)
RefLeaves(element, parent_path) ==
    LET path == parent_path \o <<"/">> \o RefLocalName(element.tag)
    IN IF Len(element.children) = 0
       THEN {[path |-> path, text |-> element.text,
              nil |-> \E k \in 1..Len(element.attrib) :
                         /\ element.attrib[k].name = XsiName("nil")
                         /\ element.attrib[k].value = <<"true">>]}
       ELSE UNION { RefLeaves(element.children[k], path) :
                    k \in 1..Len(element.children) }

BothLeafSightings ==
    IF extract.pc = "both" THEN RefLeaves(extract.doc, <<>>) ELSE {}

RecordAt(records, path) ==
    records[CHOOSE k \in 1..Len(records) : records[k].fieldPath = path]

\* A leaf sighting the client's extractor marks empty: no text and not
\* nil, or blank text.
SightedEmpty(leaf) ==
    IF IsNone(leaf.text) THEN ~leaf.nil ELSE IsBlank(Get(leaf.text))

\* C26: the engine's extractor never sets hasNull and reports a text-less
\* leaf with xsi:nil="true" as empty; the client's extractor reports such
\* a leaf as null and not as empty, and a text-less leaf without
\* xsi:nil="true" as empty.
C26_NilHandling ==
    extract.pc = "both" =>
        /\ \A k \in 1..Len(extract.sdk) : ~extract.sdk[k].hasNull
        /\ \A leaf \in BothLeafSightings :
              LET sdk == RecordAt(extract.sdk, leaf.path)
                  testgen == RecordAt(extract.testgen, leaf.path)
                  same == {l \in BothLeafSightings : l.path = leaf.path}
              IN /\ (IsNone(leaf.text) /\ leaf.nil) => sdk.hasEmpty
                 /\ testgen.hasNull =
                       (\E l \in same : IsNone(l.text) /\ l.nil)
                 /\ testgen.hasEmpty = (\E l \in same : SightedEmpty(l))

\* A document with a nil leaf and no other leaf at its path went through
\* both extractors.
C26_Witness ==
    /\ extract.pc = "both"
    /\ \E leaf \in BothLeafSightings :
          /\ IsNone(leaf.text) /\ leaf.nil
          /\ \A l \in BothLeafSightings : l.path = leaf.path => l = leaf
          /\ RecordAt(extract.testgen, leaf.path).hasNull
          /\ ~RecordAt(extract.testgen, leaf.path).hasEmpty
          /\ RecordAt(extract.sdk, leaf.path).hasEmpty


RecordSet(records) == { records[k] : k \in 1..Len(records) }

RECURSIVE AttributeNames(_)
AttributeNames(element) ==
    { element.attrib[k].name : k \in 1..Len(element.attrib) }
        \cup UNION { AttributeNames(element.children[k]) :
                     k \in 1..Len(element.children) }

HasXsiAttribute(doc) ==
    \E name \in AttributeNames(doc) :
        Len(name) > 3 /\ name[1] = "{" /\ name[2] = XSI_NAMESPACE

\* C28: for a well-formed document without attributes of the
\* XML-Schema-instance namespace and a metadata mapping that is not None,
\* the engine's and the client's extractor return the same set of records
\* (fieldPath, count, hasNull, hasEmpty and metadata).
C28_ExtractorsAgree ==
    (extract.pc = "both" /\ ~HasXsiAttribute(extract.doc))
        => RecordSet(extract.sdk) = RecordSet(extract.testgen)

\* The same for documents in which no attribute name contains the text
\* "XMLSchema-instance" at all.
ExtractorsAgreeWithoutTheText ==
    (/\ extract.pc = "both"
     /\ \A name \in AttributeNames(extract.doc) :
           ~ContainsXMLSchemaInstance(name))
        => RecordSet(extract.sdk) = RecordSet(extract.testgen)


\* The emitted leaves that are not nil, each with its definition.
EmittedLeaves ==
    {element \in Emitted :
        is_leaf(DefinitionOf(element)) /\ ~IsNil(element)}

BoundType(element) == SemanticTypeOf(gen.generator, element.definition)

\* C27: the text of a leaf whose path is bound to a semantic type is a
\* value of the Value Registry for that type, never the empty string of
\* the empty-string rule; without a binding the text is "" only for a
\* string type without enumeration, and otherwise a value of the XSD Value
\* Generator.
C27_TextValuePriority ==
    \A element \in EmittedLeaves :
        LET element_def == DefinitionOf(element)
            text == Get(element.text)
        IN IF TruthyText(BoundType(element))
           THEN text \in RegistryValues(Get(BoundType(element)))
           ELSE IF text = ""
           THEN /\ ~IsNone(element_def.type_def)
                /\ Get(element_def.type_def).base_type = "string"
                /\ ~Enumerated(element_def)
           ELSE text \in XsdTypeValues(element_def.type_def)

\* The part that holds: the text of a leaf without a binding.
TextWithoutBinding ==
    \A element \in EmittedLeaves :
        LET element_def == DefinitionOf(element)
            text == Get(element.text)
        IN ~TruthyText(BoundType(element)) =>
              IF text = ""
              THEN /\ ~IsNone(element_def.type_def)
                   /\ Get(element_def.type_def).base_type = "string"
                   /\ ~Enumerated(element_def)
              ELSE text \in XsdTypeValues(element_def.type_def)


\* The worker threads inside the loop of _process_queue.
Consumers ==
    {w \in Workers : workers[w].pc \notin {"start", "exited", "dead"}}

\* C22: when nothing but initialize() calls and submissions run, at most
\* one worker thread consumes the queue, at most one batch POST is in
\* flight, and at most one work item is being processed.
C22_SingleConsumer ==
    calls.reset = 0 =>
        /\ Cardinality(Consumers) <= 1
        /\ Cardinality({w \in Workers : workers[w].pc = "posting"}) <= 1
        /\ Cardinality({w \in Workers : ~IsNone(workers[w].work_item)}) <= 1

\* Two POSTs in flight at once, with no reset() in the run.
TwoPostsInFlight ==
    /\ calls.reset = 0
    /\ Cardinality({w \in Workers : workers[w].pc = "posting"}) = 2


\* C23: whenever the initialized flag is true, the queue slot is not None
\* and the worker thread of the engine has been started, under any
\* interleaving of initialize(), reset() and intake calls; so an intake
\* call that saw the flag true never finds the queue slot None.
C23_InitializedImpliesQueue ==
    /\ initialized => (queue # 0 /\ worker_thread # 0)
    /\ \A t \in Threads : callers[t].pc # "enqueue_except"

\* The flag is true and the queue slot None with no call in progress: the
\* engine stays so.
InitializedWithoutQueue ==
    /\ initialized /\ queue = 0 /\ state_lock = "free"
    /\ \A t \in Threads : callers[t].pc = "idle"


\* The arguments of the initialize() call that created queue object k and
\* worker k with it (the calls differ in their queue_capacity).
IncarnationArgs(k) ==
    CHOOSE a \in RaceInitArgs : a.queue_capacity = queues[k].maxsize

ConfiguredUrl(a) ==
    IF Truthy(a.base_url) THEN RStrip(Get(a.base_url), {"/"}) ELSE <<>>

\* C24: after reset(), initialize() acts like a first initialization: its
\* session, base URL, batch size and callback are in effect when it
\* returns; a queue is only dequeued by the worker started with it, and a
\* worker only POSTs with the session and the base URL of the initialize()
\* call that started it.
C24_RestartIsolation ==
    /\ (last.kind = "return" /\ last.op = "initialize"
            /\ last.outcome = "initialized") =>
          LET a == Get(last.args) IN
          /\ session = a.session
          /\ base_url = ConfiguredUrl(a)
          /\ batch_size = (IF a.batch_size > 0 THEN a.batch_size
                           ELSE DEFAULT_BATCH_SIZE)
          /\ global_error_handler = a.on_error
    /\ last.kind = "get" => last.worker = last.queue
    /\ last.kind = "post" =>
          LET a == IncarnationArgs(last.worker)
              item == Get(workers[last.worker].work_item)
          IN /\ last.session = a.session
             /\ last.url = ConfiguredUrl(a)
                              \o OBSERVATIONS_ENDPOINT(item.context_id)

\* The part that holds: the second initialize() takes effect like a first.
RestartTakesEffect ==
    (last.kind = "return" /\ last.op = "initialize"
        /\ last.outcome = "initialized") =>
          LET a == Get(last.args) IN
          /\ session = a.session
          /\ base_url = ConfiguredUrl(a)
          /\ batch_size = (IF a.batch_size > 0 THEN a.batch_size
                           ELSE DEFAULT_BATCH_SIZE)
          /\ global_error_handler = a.on_error

\* A worker of the previous incarnation takes an item from the new queue.
OldWorkerTakesFromNewQueue ==
    last.kind = "get" /\ last.worker < last.queue

\* A worker of the previous incarnation POSTs with the session of the new.
OldWorkerPostsWithNewSession ==
    /\ last.kind = "post" /\ last.worker < Len(workers)
    /\ last.session # IncarnationArgs(last.worker).session
    /\ last.session = IncarnationArgs(Len(workers)).session


\* How many places hold the work item `id`: positions in queues, and
\* workers processing it.
Holders(id) ==
    Cardinality({<<k, j>> \in (1..Len(queues)) \X (1..(MaxSubmit + 1)) :
                    j <= Len(queues[k].items) /\ queues[k].items[j].id = id})
        + Cardinality({w \in Workers :
                          /\ ~IsNone(workers[w].work_item)
                          /\ Get(workers[w].work_item).id = id})

AcceptedIds ==
    UNION { {queues[k].arrivals[j].id : j \in 1..Len(queues[k].arrivals)} :
            k \in 1..Len(queues) }

ConfiguredUrls ==
    { IF Truthy(a.base_url) THEN RStrip(Get(a.base_url), {"/"}) ELSE <<>> :
      a \in RaceInitArgs \cup UsageInitArgs }

\* C29: in a run without reset(), an accepted work item is dequeued at
\* most once; once it has been processed each of its observations has left
\* in exactly one POST body; a POST body holds observations of one accepted
\* work item only, and its URL is the base URL followed by
\* /catalog/contexts/{contextId}/observations for that item's contextId.
C29_NoDuplicationNoInvention ==
    calls.reset = 0 =>
        /\ \A id \in 1..MaxSubmit : Holders(id) <= 1
        /\ \A i, j \in 1..Len(served) : served[i] = served[j] => i = j
        /\ \A w \in Workers :
              workers[w].pc = "task_done" =>
                  workers[w].sent = Get(workers[w].work_item).observations
        /\ last.kind = "post" =>
              LET item == Get(workers[last.worker].work_item) IN
              /\ item.id = last.id
              /\ item.id \in AcceptedIds
              /\ \E i \in 1..Len(item.observations) :
                    last.json = SubSeq(item.observations, i,
                                       i + Len(last.json) - 1)
              /\ \E base \in ConfiguredUrls :
                    last.url = base \o OBSERVATIONS_ENDPOINT(item.context_id)

\* C29's case: a work item of three observations has been processed, and
\* another one accepted.
C29_Witness ==
    /\ calls.reset = 0
    /\ \E w \in Workers :
          /\ workers[w].pc = "task_done"
          /\ Len(Get(workers[w].work_item).observations) = 3
          /\ workers[w].nposts = 2
    /\ Cardinality(AcceptedIds) = 2


\* The work item `id` waits in a queue.
Pending(id) ==
    \E k \in 1..Len(queues) :
        \E j \in 1..Len(queues[k].items) : queues[k].items[j].id = id

\* The worker has been through every batch of work item `id`.
Processed(id) ==
    \E w \in Workers :
        /\ workers[w].pc = "task_done"
        /\ Get(workers[w].work_item).id = id
        /\ workers[w].sent = Get(workers[w].work_item).observations

\* No intake call is in progress and none will start.
SubmissionsStopped ==
    /\ calls.submit = MaxSubmit
    /\ \A t \in Threads :
          callers[t].pc \notin {"enqueue_check_queue", "enqueue_put",
                                "enqueue_except"}

\* The queue is empty and the worker waits in get().
Drained ==
    /\ queue # 0 /\ Len(queues[queue].items) = 0
    /\ worker_thread # 0 /\ workers[worker_thread].pc = "blocked"

\* C30: on an initialized engine that is never reset, with the workers
\* scheduled fairly and every POST returning or raising, every work item
\* a queue accepted eventually has all its batches attempted, and once
\* submissions have stopped the queue eventually is empty and stays empty,
\* the worker blocked in get(). It holds under SpecUsageFair; under
\* SpecConcurrent a work item put on the queue of the first of two racing
\* initialize() calls stays there once _queue names the second queue,
\* every worker waiting on that one.
C30_WorkerProgress ==
    /\ \A id \in 1..MaxSubmit : Pending(id) ~> Processed(id)
    /\ (initialized /\ SubmissionsStopped) ~> []Drained

=============================================================================
